---- MODULE Spec2Model ----
(***************************************************************************)
(* Access-gated key-intake bot, revision 3.3 (src/unnamed/part_001, lines   *)
(* 1-1807) with its access database (src/unnamed/part_003) and the          *)
(* customer key table (src/schema.sql).                                     *)
(*                                                                          *)
(* Texts are sequences of one-character strings, so that the regular        *)
(* expressions, parseInt, parseFloat and toString of the handlers are       *)
(* computed and not assumed.  A nullable column is <<>> (NULL) or <<v>>.    *)
(* Time is counted in ticks, TicksPerDay of them to a day.                  *)
(***************************************************************************)
EXTENDS Integers, Sequences, FiniteSets, TLC

\* ------------------------------------------------------------------ bounds
TicksPerDay == 2
MaxDays == 31
Window == 1
MaxFunnels == 2
MaxInFlight == 2
MaxMenus == 1

\* ------------------------------------------------------- program constants
GrantDays == 30
AdminDaysLeft == 999
MinKeyLen == 25
IdMinLen == 8
IdMaxLen == 12

NULL == <<>>
Some(v) == <<v>>

\* ------------------------------------------------------------------- texts
Digits == {"0", "1", "2", "3", "4", "5", "6", "7", "8", "9"}

DigitVal(c) ==
  CASE c = "0" -> 0 [] c = "1" -> 1 [] c = "2" -> 2 [] c = "3" -> 3
    [] c = "4" -> 4 [] c = "5" -> 5 [] c = "6" -> 6 [] c = "7" -> 7
    [] c = "8" -> 8 [] c = "9" -> 9

DigitChar(d) ==
  CASE d = 0 -> "0" [] d = 1 -> "1" [] d = 2 -> "2" [] d = 3 -> "3"
    [] d = 4 -> "4" [] d = 5 -> "5" [] d = 6 -> "6" [] d = 7 -> "7"
    [] d = 8 -> "8" [] d = 9 -> "9"

Lower == {"a", "b", "c", "d", "e", "f", "g", "h", "i", "j", "k", "l", "m",
          "n", "o", "p", "q", "r", "s", "t", "u", "v", "w", "x", "y", "z"}
Upper == {"A", "B", "C", "D", "E", "F", "G", "H", "I", "J", "K", "L", "M",
          "N", "O", "P", "Q", "R", "S", "T", "U", "V", "W", "X", "Y", "Z"}

\* Number.prototype.toString of a non-negative integer chat id
RECURSIVE toString(_)
toString(n) ==
  IF n < 10 THEN <<DigitChar(n)>>
  ELSE Append(toString(n \div 10), DigitChar(n % 10))

\* parseInt of a text the id pattern has accepted (digits only)
RECURSIVE parseInt(_)
parseInt(text) ==
  IF text = <<>> THEN 0
  ELSE 10 * parseInt(SubSeq(text, 1, Len(text) - 1)) + DigitVal(text[Len(text)])

\* /^\d{8,12}$/.test(text)
IsChatIdFormat(text) ==
  /\ Len(text) >= IdMinLen
  /\ Len(text) <= IdMaxLen
  /\ \A i \in 1..Len(text) : text[i] \in Digits

\* ------------------------------------------------------------ identities
\* process.env.ADMIN_CHAT_IDS, split on ',' and trimmed: a list of strings
ADMIN_CHAT_IDS ==
  { <<"7", "0", "0", "0", "0", "0", "0", "1">>,
    <<"7", "0", "0", "0", "0", "0", "0", "2">> }

AdminA == parseInt(<<"7", "0", "0", "0", "0", "0", "0", "1">>)
AdminB == parseInt(<<"7", "0", "0", "0", "0", "0", "0", "2">>)
UserU == parseInt(<<"1", "2", "3", "4", "5", "6", "7", "8">>)

ChatIds == {AdminA, AdminB, UserU}

isAdmin(chatId) == toString(chatId) \in ADMIN_CHAT_IDS

VARIABLES
  now,          \* the clock: NOW() of the databases, new Date() of the process
  user_access,  \* table user_access (our database): a set of rows
  user_funnel,  \* table user_funnel (our database): a set of rows
  api_keys,     \* table api_keys (customer database): a set of rows
  userStates,   \* Map userStates: chat id -> <<>> or <<[platform, waitingForKey]>>
  adminStates,  \* Map adminStates: chat id -> <<>> or <<[action, step, userId]>>
  verticalMenu, \* chat id -> number of category keyboards on the user's screen
  inflight,     \* text handlers suspended between their SELECT and their INSERT
  ourDbUp,      \* whether getOurDbConnection and the queries on it succeed
  admin_logs,   \* table admin_logs (our database): who did what to whom
  reply,        \* what the last handler answered
  notifications \* table notifications (our database): the reminders sent

vars == <<now, user_access, user_funnel, api_keys, userStates, adminStates,
          verticalMenu, inflight, ourDbUp, admin_logs, reply, notifications>>

NoReply ==
  [to |-> 0, kind |-> "none", since |-> NULL, daysLeft |-> 0, text |-> NULL,
   notice |-> NULL]

Answer(c, k) ==
  [to |-> c, kind |-> k, since |-> NULL, daysLeft |-> 0, text |-> NULL,
   notice |-> NULL]

\* the answer to a message of the funnel dialogue, with the text it answers
AnswerTo(c, k, text) == [Answer(c, k) EXCEPT !.text = Some(text)]

\* the handler ran for chat c and sent nothing
Silent(c) == Answer(c, "none")

Init ==
  /\ now = 0
  /\ user_access = {}
  /\ user_funnel = {}
  /\ api_keys = {}
  /\ userStates = [c \in ChatIds |-> NULL]
  /\ adminStates = [c \in ChatIds |-> NULL]
  /\ verticalMenu = [c \in ChatIds |-> 0]
  /\ inflight = {}
  /\ ourDbUp = TRUE
  /\ admin_logs = {}
  /\ reply = NoReply
  /\ notifications = {}

\* ------------------------------------------------------------- AccessGate
Max(a, b) == IF a >= b THEN a ELSE b

\* Math.ceil(a / b) for b > 0
CeilDivWrong(a, b) == a \div b

CeilDiv(a, b) == IF a >= 0 THEN (a + b - 1) \div b ELSE -((-a) \div b)

AccessRows(chatId) == {r \in user_access : r.chat_id = chatId}

\* the rows the SELECT of checkUserAccess returns
ValidRowsWrong(chatId) ==
  {r \in AccessRows(chatId) : r.is_active /\ r.expires_at >= now}

ValidRows(chatId) ==
  {r \in AccessRows(chatId) : r.is_active /\ r.expires_at > now}

NoAccess == [hasAccess |-> FALSE, daysLeft |-> 0, expiresAt |-> NULL, isActive |-> FALSE]

\* what the catch block of checkUserAccess returns
AccessCheckFailedWrong ==
  [hasAccess |-> TRUE, daysLeft |-> 0, expiresAt |-> NULL, isActive |-> FALSE]

AccessCheckFailed ==
  [hasAccess |-> FALSE, daysLeft |-> 0, expiresAt |-> NULL, isActive |-> FALSE]

checkUserAccessWrong(chatId) ==
  IF ~ourDbUp THEN AccessCheckFailed
  ELSE IF ValidRows(chatId) = {} THEN NoAccess
  ELSE [hasAccess |-> TRUE, daysLeft |-> AdminDaysLeft, expiresAt |-> NULL,
        isActive |-> TRUE]

checkUserAccess(chatId) ==
  IF isAdmin(chatId)
  THEN [hasAccess |-> TRUE, daysLeft |-> AdminDaysLeft, expiresAt |-> NULL, isActive |-> TRUE]
  ELSE IF ~ourDbUp
       THEN AccessCheckFailed
       ELSE IF ValidRows(chatId) = {}
       THEN NoAccess
       ELSE LET row == CHOOSE r \in ValidRows(chatId) : TRUE
                timeDiff == row.expires_at - now
            IN [hasAccess |-> TRUE,
                daysLeft |-> Max(0, CeilDiv(timeDiff, TicksPerDay)),
                expiresAt |-> Some(row.expires_at),
                isActive |-> row.is_active]

\* no text handler is suspended between its SELECT and its INSERT
Idle == inflight = {}

\* the gate every reply-keyboard handler and the text handler open with
Denied(chatId) == ~isAdmin(chatId) /\ ~checkUserAccess(chatId).hasAccess

\* the clock advances to a later instant
Tick(t) ==
  /\ Idle
  /\ t > now
  /\ now' = t
  /\ UNCHANGED <<admin_logs, ourDbUp, user_access, user_funnel, api_keys, userStates, adminStates,
                 verticalMenu, inflight, reply, notifications>>

\* our database stops answering: connect or query throws from now on
OurDbFails ==
  /\ ourDbUp
  /\ ourDbUp' = FALSE
  /\ UNCHANGED <<admin_logs, now, user_access, user_funnel, api_keys, userStates, adminStates,
                 verticalMenu, inflight, reply, notifications>>

\* our database answers again
OurDbRecovers ==
  /\ ~ourDbUp
  /\ ourDbUp' = TRUE
  /\ UNCHANGED <<admin_logs, now, user_access, user_funnel, api_keys, userStates, adminStates,
                 verticalMenu, inflight, reply, notifications>>

\* bot.hears('📊 Мой статус'): the access part of the answer
HearsMyStatus(c) ==
  /\ Idle
  /\ reply' = IF isAdmin(c) THEN Answer(c, "admin_status")
              ELSE IF ~checkUserAccess(c).hasAccess THEN Answer(c, "denied")
              ELSE [to |-> c, kind |-> "status", text |-> NULL, notice |-> NULL,
                    since |-> checkUserAccess(c).expiresAt,
                    daysLeft |-> checkUserAccess(c).daysLeft]
  /\ UNCHANGED <<now, ourDbUp, admin_logs, user_access, user_funnel, api_keys, userStates, adminStates,
                 verticalMenu, inflight, notifications>>

\* ----------------------------------------------------------- AdminConsole
\* new Date() then setDate(getDate() + 30)
GrantExpiryWrong(old) == old + GrantDays * TicksPerDay

GrantExpiry(old) == now + GrantDays * TicksPerDay

\* bot.hears('👤 Добавить пользователя')
HearsAddUser(c) ==
  /\ Idle
  /\ adminStates' = IF isAdmin(c)
                    THEN [adminStates EXCEPT ![c] = Some([action |-> "add_user", step |-> "waiting_id", userId |-> 0])]
                    ELSE adminStates
  /\ reply' = IF isAdmin(c) THEN Answer(c, "ask_chat_id") ELSE NoReply
  /\ UNCHANGED <<now, ourDbUp, admin_logs, user_access, user_funnel, api_keys, userStates,
                 verticalMenu, inflight, notifications>>

\* bot.hears('🔙 Выход из админки') and bot.command('admin'): the dialogue is dropped
HearsAdminExit(c) ==
  /\ Idle
  /\ adminStates' = IF isAdmin(c) THEN [adminStates EXCEPT ![c] = NULL] ELSE adminStates
  /\ reply' = IF isAdmin(c) THEN Answer(c, "menu") ELSE NoReply
  /\ UNCHANGED <<now, ourDbUp, admin_logs, user_access, user_funnel, api_keys, userStates,
                 verticalMenu, inflight, notifications>>

\* a row of admin_logs: admin_id, action, target_user_id
LogEntry(adminId, action, targetUserId) ==
  [admin_id |-> adminId, action |-> action, target_user_id |-> targetUserId]

\* logAdminAction: an INSERT on a connection of its own; an error is logged to
\* the console and swallowed
logAdminActionWrong(adminId, action, targetUserId) == admin_logs

logAdminAction(adminId, action, targetUserId) ==
  IF ourDbUp THEN admin_logs \cup {LogEntry(adminId, action, targetUserId)}
  ELSE admin_logs

InWaitingId(c) ==
  /\ isAdmin(c)
  /\ adminStates[c] # NULL
  /\ adminStates[c][1].action = "add_user"
  /\ adminStates[c][1].step = "waiting_id"

InConfirmAction(c) ==
  /\ isAdmin(c)
  /\ adminStates[c] # NULL
  /\ adminStates[c][1].action = "add_user"
  /\ adminStates[c][1].step = "confirm_action"
  /\ adminStates[c][1].userId # 0

\* the two identity checks of the add-user dialogue
IsSelf(c, userId) == userId = c

IsOtherAdminWrong(userId) == FALSE

IsOtherAdmin(userId) == toString(userId) \in ADMIN_CHAT_IDS

\* what the step waiting_id answers to a text: the checks in the code's order
WaitingIdAnswer(c, text) ==
  IF ~IsChatIdFormat(text) THEN "bad_chat_id_format"
  ELSE IF IsSelf(c, parseInt(text)) THEN "reject_self"
  ELSE IF IsOtherAdmin(parseInt(text)) THEN "reject_admin"
  ELSE IF ~ourDbUp THEN "add_error"
  ELSE IF AccessRows(parseInt(text)) # {} THEN "already_exists"
  ELSE "user_added"

\* bot.on('text'), admin branch, step waiting_id. A wrong format asks again.
\* For a user who has a row the choices 1 / 2 / 3 are shown and the step is
\* set to confirm_action, but the return sits inside try: the finally block
\* runs adminStates.delete(chatId) before the handler ends.
TextAdminWaitingId(c, text) ==
  /\ Idle
  /\ InWaitingId(c)
  /\ reply' = Answer(c, WaitingIdAnswer(c, text))
  /\ adminStates' = IF WaitingIdAnswer(c, text) = "bad_chat_id_format" THEN adminStates
                    ELSE [adminStates EXCEPT ![c] = NULL]
  /\ user_access' =
       IF WaitingIdAnswer(c, text) = "user_added"
       THEN user_access \cup
              {[chat_id |-> parseInt(text), granted_at |-> now,
                expires_at |-> GrantExpiry(0), is_active |-> TRUE,
                created_by_admin_id |-> c]}
       ELSE user_access
  /\ admin_logs' =
       IF WaitingIdAnswer(c, text) = "user_added"
       THEN logAdminAction(c, "add_user", parseInt(text))
       ELSE admin_logs
  /\ UNCHANGED <<now, ourDbUp, user_funnel, api_keys, userStates, verticalMenu, inflight,
                 notifications>>

\* bot.on('text'), admin branch, step confirm_action; no handler leaves the
\* dialogue at this step (see TextAdminWaitingId), so no state enables it
TextAdminConfirm(c, text) ==
  /\ Idle
  /\ InConfirmAction(c)
  /\ LET userId == adminStates[c][1].userId IN
       IF ~ourDbUp
       THEN /\ reply' = Answer(c, "action_error")
            /\ adminStates' = [adminStates EXCEPT ![c] = NULL]
            /\ UNCHANGED <<user_access, admin_logs>>
       ELSE IF text = <<"1">>
       THEN /\ user_access' =
                 {IF r.chat_id = userId
                  THEN [r EXCEPT !.expires_at = GrantExpiry(r.expires_at), !.is_active = TRUE]
                  ELSE r : r \in user_access}
            /\ admin_logs' = logAdminAction(c, "extend_access", userId)
            /\ reply' = Answer(c, "extended")
            /\ adminStates' = [adminStates EXCEPT ![c] = NULL]
       ELSE IF text = <<"2">>
       THEN /\ user_access' =
                 {IF r.chat_id = userId THEN [r EXCEPT !.is_active = FALSE] ELSE r
                    : r \in user_access}
            /\ admin_logs' = logAdminAction(c, "deactivate_access", userId)
            /\ reply' = Answer(c, "deactivated")
            /\ adminStates' = [adminStates EXCEPT ![c] = NULL]
       ELSE IF text = <<"3">>
       THEN /\ reply' = Answer(c, "cancelled")
            /\ adminStates' = [adminStates EXCEPT ![c] = NULL]
            /\ UNCHANGED <<user_access, admin_logs>>
       ELSE \* return inside try: finally still drops the dialogue
            /\ reply' = Answer(c, "use_1_2_3")
            /\ adminStates' = [adminStates EXCEPT ![c] = NULL]
            /\ UNCHANGED <<user_access, admin_logs>>
  /\ UNCHANGED <<now, ourDbUp, user_funnel, api_keys, userStates, verticalMenu, inflight,
                 notifications>>

\* PROCEDURE add_user_access(p_chat_id, p_admin_id, p_days DEFAULT 30): the
\* upsert an operator runs against the access database
add_user_access(p_chat_id, p_admin_id) ==
  /\ Idle
  /\ ourDbUp
  /\ LET v_expires_at == now + GrantDays * TicksPerDay IN
       user_access' =
         IF AccessRows(p_chat_id) = {}
         THEN user_access \cup
                {[chat_id |-> p_chat_id, granted_at |-> now, expires_at |-> v_expires_at,
                  is_active |-> TRUE, created_by_admin_id |-> p_admin_id]}
         ELSE {IF r.chat_id = p_chat_id
               THEN [r EXCEPT !.expires_at = v_expires_at, !.is_active = TRUE,
                              !.created_by_admin_id = p_admin_id,
                              !.granted_at = IF r.expires_at < now THEN now
                                             ELSE r.granted_at]
               ELSE r : r \in user_access}
  /\ admin_logs' = admin_logs \cup {LogEntry(p_admin_id, "add_access", p_chat_id)}
  /\ UNCHANGED <<now, ourDbUp, user_funnel, api_keys, userStates, adminStates, verticalMenu,
                 inflight, reply, notifications>>

\* PROCEDURE deactivate_user_access(p_chat_id, p_admin_id, p_reason)
deactivate_user_accessWrong(p_chat_id, p_admin_id) ==
  /\ Idle
  /\ ourDbUp
  /\ user_access' = {IF r.chat_id = p_chat_id THEN [r EXCEPT !.is_active = FALSE] ELSE r
                       : r \in user_access}
  /\ user_funnel' = {f \in user_funnel : f.chat_id # p_chat_id}
  /\ admin_logs' = admin_logs \cup {LogEntry(p_admin_id, "deactivate_access", p_chat_id)}
  /\ UNCHANGED <<now, ourDbUp, api_keys, userStates, adminStates, verticalMenu,
                 inflight, reply, notifications>>

deactivate_user_access(p_chat_id, p_admin_id) ==
  /\ Idle
  /\ ourDbUp
  /\ user_access' = {IF r.chat_id = p_chat_id THEN [r EXCEPT !.is_active = FALSE] ELSE r
                       : r \in user_access}
  /\ admin_logs' = admin_logs \cup {LogEntry(p_admin_id, "deactivate_access", p_chat_id)}
  /\ UNCHANGED <<now, ourDbUp, user_funnel, api_keys, userStates, adminStates, verticalMenu,
                 inflight, reply, notifications>>

\* ------------------------------------------------------------ FunnelStore
Steps == <<"vertical", "geo", "source", "price", "api_key">>

StepIndex(step) == CHOOSE i \in 1..Len(Steps) : Steps[i] = step

FunnelRows(chatId) == {f \in user_funnel : f.chat_id = chatId}

\* SELECT * FROM user_funnel WHERE chat_id = $1 AND is_completed = false
ActiveFunnel(chatId) == {f \in FunnelRows(chatId) : ~f.is_completed}

TheFunnel(chatId) == CHOOSE f \in ActiveFunnel(chatId) : TRUE

AtStep(chatId, step) ==
  ActiveFunnel(chatId) # {} /\ TheFunnel(chatId).current_step = step

\* INSERT INTO user_funnel (chat_id, current_step) VALUES ($1, 'vertical')
NewFunnelWrong(chatId) ==
  [id |-> Cardinality(user_funnel) + 1, chat_id |-> chatId, vertical |-> NULL,
   geo |-> NULL, source |-> NULL, conversion_price |-> NULL, api_key |-> NULL,
   current_step |-> "geo", is_completed |-> FALSE, created_at |-> now,
   updated_at |-> now]

NewFunnel(chatId) ==
  [id |-> Cardinality(user_funnel) + 1, chat_id |-> chatId, vertical |-> NULL,
   geo |-> NULL, source |-> NULL, conversion_price |-> NULL, api_key |-> NULL,
   current_step |-> "vertical", is_completed |-> FALSE, created_at |-> now,
   updated_at |-> now]

\* FOREIGN KEY (chat_id) REFERENCES user_access(chat_id)
FunnelForeignKeyOk(chatId) == AccessRows(chatId) # {}

\* the INSERT of getOrCreateUserFunnel is refused and the error is rethrown
getOrCreateThrows(chatId) ==
  ~ourDbUp \/ (ActiveFunnel(chatId) = {} /\ ~FunnelForeignKeyOk(chatId))

getOrCreateUserFunnelWrong(chatId) ==
  IF getOrCreateThrows(chatId) THEN user_funnel
  ELSE user_funnel \cup {NewFunnel(chatId)}

getOrCreateUserFunnel(chatId) ==
  IF ActiveFunnel(chatId) # {} THEN user_funnel
  ELSE IF getOrCreateThrows(chatId) THEN user_funnel
  ELSE user_funnel \cup {NewFunnel(chatId)}

\* UPDATE user_funnel SET current_step = $1, updated_at = NOW()
\* WHERE chat_id = $2 AND is_completed = false
updateFunnelStepWrong(table, chatId, step) ==
  IF ~ourDbUp THEN table ELSE
  {IF f.chat_id = chatId
   THEN [f EXCEPT !.current_step = step, !.updated_at = now] ELSE f : f \in table}

updateFunnelStep(table, chatId, step) ==
  IF ~ourDbUp THEN table ELSE
  {IF f.chat_id = chatId /\ ~f.is_completed
   THEN [f EXCEPT !.current_step = step, !.updated_at = now] ELSE f : f \in table}

updateFunnelField(table, chatId, field, value) ==
  IF ~ourDbUp THEN table ELSE
  {IF f.chat_id = chatId /\ ~f.is_completed
   THEN [f EXCEPT ![field] = value, !.updated_at = now] ELSE f : f \in table}

completeFunnelWrong(table, chatId) == table

completeFunnel(table, chatId) ==
  IF ~ourDbUp THEN table ELSE
  {IF f.chat_id = chatId /\ ~f.is_completed
   THEN [f EXCEPT !.is_completed = TRUE, !.updated_at = now] ELSE f : f \in table}

\* VIEW unfinished_funnels: WHERE is_completed = false AND created_at < NOW()
\* - INTERVAL '1 hour'.  The clock counts ticks of at least one hour, so an
\* instant lies more than an hour back exactly when it lies at least a tick
\* back.  The listing is the set of funnel rows the view selects.
unfinished_funnels ==
  {f \in user_funnel : ~f.is_completed /\ f.created_at < now}

\* ----------------------------------------------------------- FunnelEngine
Verticals == {"Gambling / Betting", "Finance / MFO"}

\* bot.hears('🎯 Выбрать вертикаль')
HearsBeginFunnel(c) ==
  /\ Idle
  /\ verticalMenu[c] < MaxMenus
  /\ ActiveFunnel(c) # {} \/ Cardinality(FunnelRows(c)) < MaxFunnels
  /\ IF Denied(c)
     THEN /\ reply' = Answer(c, "denied")
          /\ UNCHANGED <<user_funnel, verticalMenu>>
     ELSE IF getOrCreateThrows(c)
     THEN /\ reply' = Answer(c, "handler_error")
          /\ UNCHANGED <<user_funnel, verticalMenu>>
     ELSE /\ user_funnel' = getOrCreateUserFunnel(c)
          /\ verticalMenu' = [verticalMenu EXCEPT ![c] = @ + 1]
          /\ reply' = Answer(c, "choose_vertical")
  /\ UNCHANGED <<now, ourDbUp, admin_logs, user_access, api_keys, userStates, adminStates, inflight,
                 notifications>>

handleVerticalSelectionWrong(table, chatId, vertical) ==
  IF AtStep(chatId, "vertical")
  THEN updateFunnelStep(updateFunnelField(table, chatId, "vertical", Some(vertical)),
                        chatId, "geo")
  ELSE table

handleVerticalSelection(table, chatId, vertical) ==
  updateFunnelStep(updateFunnelField(table, chatId, "vertical", Some(vertical)),
                   chatId, "geo")

\* bot.action('vertical_*'): a button of a category keyboard still on screen
handleVerticalAction(c, vertical) ==
  /\ verticalMenu[c] > 0
  /\ user_funnel' = handleVerticalSelection(user_funnel, c, vertical)
  /\ verticalMenu' = [verticalMenu EXCEPT ![c] = @ - 1]
  /\ reply' = Answer(c, "ask_geo")
  /\ UNCHANGED <<now, ourDbUp, admin_logs, user_access, api_keys, userStates, adminStates, inflight,
                 notifications>>

\* the same, with no other handler in flight
ActionVertical(c, vertical) == Idle /\ handleVerticalAction(c, vertical)

PlatformLabels == {"1. Meta", "2. Tik Tok", "3. Google", "4. Others"}

\* the message text a press of a reply-keyboard button sends
LabelText(label) ==
  CASE label = "1. Meta" -> <<"1", ".", " ", "M", "e", "t", "a">>
    [] label = "2. Tik Tok" -> <<"2", ".", " ", "T", "i", "k", " ", "T", "o", "k">>
    [] label = "3. Google" -> <<"3", ".", " ", "G", "o", "o", "g", "l", "e">>
    [] label = "4. Others" -> <<"4", ".", " ", "O", "t", "h", "e", "r", "s">>

\* the texts bot.hears takes before bot.on('text') sees them
Heard(text) == \E label \in PlatformLabels : text = LabelText(label)

\* the labels of sourceMenu, the keyboard shown at step source
SourceMenuTexts ==
  {<<"1", ".", " ", "M", "e", "t", "a">>, <<"2", ".", " ", "T", "i", "k", " ", "T", "o", "k">>, <<"3", ".", " ", "G", "o", "o", "g", "l", "e">>, <<"4", ".", " ", "O", "t", "h", "e", "r">>}

\* platformMap of the funnel branch
FunnelPlatform(label) ==
  CASE label = "1. Meta" -> "Meta" [] label = "2. Tik Tok" -> "TikTok"
    [] label = "3. Google" -> "Google" [] label = "4. Others" -> "Other"

\* platformMap of the legacy branch
LegacyPlatform(label) ==
  CASE label = "1. Meta" -> "meta" [] label = "2. Tik Tok" -> "tiktok"
    [] label = "3. Google" -> "google" [] label = "4. Others" -> "others"

\* bot.hears(['1. Meta', '2. Tik Tok', '3. Google', '4. Others'])
handlePlatformPress(c, label) ==
  /\ IF Denied(c)
     THEN /\ reply' = AnswerTo(c, "denied", LabelText(label))
          /\ UNCHANGED <<user_funnel, userStates>>
     ELSE IF ~ourDbUp
     THEN \* the SELECT of the open funnel throws: the catch block only logs
          /\ reply' = Silent(c)
          /\ UNCHANGED <<user_funnel, userStates>>
     ELSE IF AtStep(c, "source")
     THEN /\ user_funnel' =
               updateFunnelStep(
                 updateFunnelField(user_funnel, c, "source", Some(FunnelPlatform(label))),
                 c, "price")
          /\ reply' = AnswerTo(c, "ask_price", LabelText(label))
          /\ UNCHANGED userStates
     ELSE /\ userStates' = [userStates EXCEPT ![c] =
               Some([platform |-> LegacyPlatform(label), waitingForKey |-> TRUE])]
          /\ reply' = AnswerTo(c, "ask_key", LabelText(label))
          /\ UNCHANGED user_funnel
  /\ UNCHANGED <<now, ourDbUp, admin_logs, user_access, api_keys, adminStates, verticalMenu, inflight,
                 notifications>>

\* the same, with no other handler in flight
HearsPlatform(c, label) == Idle /\ handlePlatformPress(c, label)

\* the step '↩️ Назад' returns to; a step it does not handle is left as it is
BackTargetWrong(step) ==
  CASE step = "source" -> "vertical" [] step = "price" -> "source"
    [] step = "api_key" -> "price" [] OTHER -> step

BackTarget(step) ==
  CASE step = "source" -> "geo" [] step = "price" -> "source"
    [] step = "api_key" -> "price" [] OTHER -> step

\* bot.hears('↩️ Назад')
HearsBack(c) ==
  /\ Idle
  /\ IF Denied(c)
     THEN /\ reply' = Answer(c, "denied")
          /\ UNCHANGED <<user_funnel, userStates>>
     ELSE IF ourDbUp /\ ActiveFunnel(c) # {}
             /\ TheFunnel(c).current_step \in {"source", "price", "api_key"}
     THEN /\ user_funnel' =
               updateFunnelStep(user_funnel, c, BackTarget(TheFunnel(c).current_step))
          /\ reply' = Answer(c, "back")
          /\ UNCHANGED userStates
     ELSE /\ userStates' = [userStates EXCEPT ![c] = NULL]
          /\ reply' = Answer(c, "menu")
          /\ UNCHANGED user_funnel
  /\ UNCHANGED <<now, ourDbUp, admin_logs, user_access, api_keys, adminStates, verticalMenu, inflight,
                 notifications>>

\* ------------------------------------------------------ text step inputs
\* parseFloat: leading blanks, an optional sign, digits, an optional fraction;
\* what follows the number is ignored; no digits at all is NaN
RECURSIVE SkipBlanks(_)
SkipBlanks(text) ==
  IF text # <<>> /\ text[1] = " " THEN SkipBlanks(Tail(text)) ELSE text

RECURSIVE DigitRun(_)
DigitRun(text) ==
  IF text # <<>> /\ text[1] \in Digits THEN <<text[1]>> \o DigitRun(Tail(text))
  ELSE <<>>

Drop(text, n) == SubSeq(text, n + 1, Len(text))

parseFloat(text) ==
  LET t0 == SkipBlanks(text)
      neg == t0 # <<>> /\ t0[1] = "-"
      t1 == IF t0 # <<>> /\ t0[1] \in {"-", "+"} THEN Tail(t0) ELSE t0
      int == DigitRun(t1)
      t2 == Drop(t1, Len(int))
      frac == IF t2 # <<>> /\ t2[1] = "." THEN DigitRun(Tail(t2)) ELSE <<>>
  IN [nan |-> int = <<>> /\ frac = <<>>, neg |-> neg, int |-> int, frac |-> frac]

\* price <= 0 for a parsed number
NotPositive(p) ==
  \/ p.neg
  \/ /\ \A i \in 1..Len(p.int) : p.int[i] = "0"
     /\ \A i \in 1..Len(p.frac) : p.frac[i] = "0"

\* isNaN(price) || price <= 0
PriceRejectedWrong(text) == parseFloat(text).nan

PriceRejected(text) == parseFloat(text).nan \/ NotPositive(parseFloat(text))

\* the value column conversion_price DECIMAL(10,2) takes: hundredths, rounded
Hundredths(p) ==
  LET d(i) == IF i <= Len(p.frac) THEN DigitVal(p.frac[i]) ELSE 0
  IN parseInt(p.int) * 100 + d(1) * 10 + d(2) + (IF d(3) >= 5 THEN 1 ELSE 0)

\* geo VARCHAR(100), conversion_price DECIMAL(10,2)
GeoMaxLen == 100
PriceIntDigits == 8

RECURSIVE StripZeros(_)
StripZeros(text) ==
  IF text # <<>> /\ text[1] = "0" THEN StripZeros(Tail(text)) ELSE text

\* the fraction is rounded up to the next whole number
RoundsToNext(p) ==
  /\ Len(p.frac) >= 3
  /\ p.frac[1] = "9" /\ p.frac[2] = "9" /\ DigitVal(p.frac[3]) >= 5

\* does the UPDATE of updateFunnelField take the value: a text too long for
\* the column, or a number too large for it, makes the statement fail
ColumnTakesWrong(field, text) == TRUE

ColumnTakes(field, text) ==
  CASE field = "geo" -> Len(text) <= GeoMaxLen
    [] field = "conversion_price" ->
         LET p == parseFloat(text)
             int == StripZeros(p.int)
         IN \/ Len(int) < PriceIntDigits
            \/ /\ Len(int) = PriceIntDigits
               /\ ~(RoundsToNext(p) /\ \A i \in 1..Len(int) : int[i] = "9")
    [] OTHER -> TRUE

KeyChars == Lower \cup Upper \cup Digits \cup {".", "_", "-"}

\* text.length > 25 && /[a-zA-Z0-9._-]{25,}/.test(text)
KeyShapedWrong(text) == TRUE

KeyShaped(text) ==
  /\ Len(text) > MinKeyLen
  /\ \E i \in 1..(Len(text) - MinKeyLen + 1) :
       \A j \in i..(i + MinKeyLen - 1) : text[j] \in KeyChars

\* bot.on('text') is reached outside the admin dialogue
NoDialogue(c) == ~InWaitingId(c) /\ ~InConfirmAction(c)

\* bot.on('text'): the access gate answers and nothing else runs
TextDenied(c, text) ==
  /\ ~Heard(text)
  /\ Idle
  /\ NoDialogue(c)
  /\ Denied(c)
  /\ reply' = AnswerTo(c, "denied", text)
  /\ UNCHANGED <<now, ourDbUp, admin_logs, user_access, user_funnel, api_keys, userStates, adminStates,
                 verticalMenu, inflight, notifications>>

\* bot.on('text'), step geo
TextGeo(c, text) ==
  /\ ~Heard(text)
  /\ Idle
  /\ NoDialogue(c)
  /\ ~Denied(c)
  /\ ourDbUp
  /\ AtStep(c, "geo")
  /\ user_funnel' =
       updateFunnelStep(
         IF ColumnTakes("geo", text)
         THEN updateFunnelField(user_funnel, c, "geo", Some(text)) ELSE user_funnel,
         c, "source")
  /\ reply' = AnswerTo(c, "ask_source", text)
  /\ UNCHANGED <<now, ourDbUp, admin_logs, user_access, api_keys, userStates, adminStates,
                 verticalMenu, inflight, notifications>>

\* bot.on('text'), step price
TextPrice(c, text) ==
  /\ ~Heard(text)
  /\ Idle
  /\ NoDialogue(c)
  /\ ~Denied(c)
  /\ ourDbUp
  /\ AtStep(c, "price")
  /\ IF PriceRejected(text)
     THEN /\ reply' = AnswerTo(c, "bad_price", text)
          /\ UNCHANGED user_funnel
     ELSE /\ user_funnel' =
               updateFunnelStep(
                 IF ColumnTakes("conversion_price", text)
                 THEN updateFunnelField(user_funnel, c, "conversion_price",
                                        Some(Hundredths(parseFloat(text))))
                 ELSE user_funnel,
                 c, "api_key")
          /\ reply' = AnswerTo(c, "ask_key", text)
  /\ UNCHANGED <<now, ourDbUp, admin_logs, user_access, api_keys, userStates, adminStates,
                 verticalMenu, inflight, notifications>>

\* ---------------------------------------------------------------- KeyStore
\* SELECT id, created_at FROM api_keys WHERE chat_id = $1 AND api_key = $2
KeyRows(chatId, text) ==
  {k \in api_keys : k.chat_id = chatId /\ k.api_key = text}

\* what exists.rows[0] may be: <<>> for no row, else the created_at of a row
ExistsResults(chatId, text) ==
  IF KeyRows(chatId, text) = {} THEN {NULL}
  ELSE {Some(k.created_at) : k \in KeyRows(chatId, text)}

FreeHandlerIds == (1..MaxInFlight) \ {h.hid : h \in inflight}

\* a handler waiting for the answer of a query; funnel is what funnelData held
Suspend(c, text, path, exists, platform) ==
  inflight' = inflight \cup
    {[hid |-> CHOOSE i \in FreeHandlerIds : TRUE, chat |-> c, text |-> text,
      path |-> path, stage |-> "exists", exists |-> exists, platform |-> platform,
      funnel |-> NULL]}

\* bot.on('text'), step api_key, up to the duplicate SELECT
TextKeyRead(c, text) ==
  /\ ~Heard(text)
  /\ NoDialogue(c)
  /\ ~Denied(c)
  /\ ourDbUp
  /\ AtStep(c, "api_key")
  /\ KeyShaped(text) => FreeHandlerIds # {}
  /\ IF KeyShaped(text)
     THEN /\ \E e \in ExistsResults(c, text) : Suspend(c, text, "funnel", e, NULL)
          /\ UNCHANGED reply
     ELSE /\ reply' = AnswerTo(c, "not_a_key", text)
          /\ UNCHANGED inflight
  /\ UNCHANGED <<now, ourDbUp, admin_logs, user_access, user_funnel, api_keys, userStates, adminStates,
                 verticalMenu, notifications>>

NewKey(chatId, text, platform, account) ==
  [id |-> Cardinality(api_keys) + 1, chat_id |-> chatId, api_key |-> text,
   platform |-> platform, account_name |-> account, created_at |-> now]

\* INSERT INTO api_keys: the table of src/schema.sql declares no uniqueness
InsertKeyWrong(row) == api_keys

InsertKey(row) == api_keys \cup {row}

Duplicate(c, since) == [Answer(c, "duplicate") EXCEPT !.since = since]

\* the funnel is closed after the duplicate reply has been sent
AfterDuplicateReplyWrong(table, chatId, sendOk) == table

AfterDuplicateReply(table, chatId, sendOk) ==
  IF sendOk THEN completeFunnel(table, chatId) ELSE table

\* bot.on('text'), step api_key: the duplicate branch, or the SELECT of funnelData
TextKeyCheck(h, sendOk) ==
  /\ h \in inflight
  /\ h.path = "funnel"
  /\ h.stage = "exists"
  /\ IF h.exists # NULL
     THEN \* the reply comes first: when it fails, completeFunnel is not reached
          /\ reply' = Duplicate(h.chat, h.exists)
          /\ user_funnel' = AfterDuplicateReply(user_funnel, h.chat, sendOk)
          /\ inflight' = inflight \ {h}
     ELSE IF ~ourDbUp \/ ActiveFunnel(h.chat) = {}
     THEN \* the SELECT throws, or funnelData.rows[0] is undefined: caught
          /\ reply' = Answer(h.chat, "server_error")
          /\ inflight' = inflight \ {h}
          /\ UNCHANGED user_funnel
     ELSE /\ inflight' = (inflight \ {h}) \cup
               {[h EXCEPT !.stage = "funnelData", !.funnel = Some(TheFunnel(h.chat))]}
          /\ UNCHANGED <<user_funnel, reply>>
  /\ UNCHANGED <<now, ourDbUp, admin_logs, user_access, api_keys, userStates, adminStates, verticalMenu,
                 notifications>>

\* account_name: 'Vertical: ..., GEO: ..., Price: ...'
AccountNameWrong(funnel) ==
  Some([vertical |-> funnel.vertical, geo |-> NULL, price |-> funnel.conversion_price])

AccountName(funnel) ==
  Some([vertical |-> funnel.vertical, geo |-> funnel.geo,
        price |-> funnel.conversion_price])

\* bot.on('text'), step api_key: the INSERT, the funnel's key and its completion
TextKeyInsert(h) ==
  /\ h \in inflight
  /\ h.path = "funnel"
  /\ h.stage = "funnelData"
  /\ inflight' = inflight \ {h}
  /\ api_keys' = InsertKey(NewKey(h.chat, h.text, h.funnel[1].source,
                                  AccountName(h.funnel[1])))
  /\ user_funnel' =
       completeFunnel(updateFunnelField(user_funnel, h.chat, "api_key", Some(h.text)),
                      h.chat)
  /\ reply' = Answer(h.chat, "saved")
  /\ UNCHANGED <<now, ourDbUp, admin_logs, user_access, userStates, adminStates, verticalMenu,
                 notifications>>

Waiting(c) == userStates[c] # NULL /\ userStates[c][1].waitingForKey

\* bot.on('text') past the funnel steps: no funnel, or one at vertical or source
PastFunnelSteps(c) ==
  IF ~ourDbUp \/ ActiveFunnel(c) = {} THEN TRUE
  ELSE TheFunnel(c).current_step \in {"vertical", "source"}

\* bot.on('text'), legacy key path, up to the duplicate SELECT
TextLegacyRead(c, text) ==
  /\ ~Heard(text)
  /\ NoDialogue(c)
  /\ ~Denied(c)
  /\ PastFunnelSteps(c)
  /\ (KeyShaped(text) /\ Waiting(c)) => FreeHandlerIds # {}
  /\ IF KeyShaped(text) /\ Waiting(c)
     THEN /\ \E e \in ExistsResults(c, text) :
               Suspend(c, text, "legacy", e, Some(userStates[c][1].platform))
          /\ UNCHANGED reply
     ELSE /\ reply' = IF Waiting(c) THEN AnswerTo(c, "not_a_key", text)
                      ELSE IF ~isAdmin(c) THEN AnswerTo(c, "use_menu", text)
                      ELSE Silent(c)
          /\ UNCHANGED inflight
  /\ UNCHANGED <<now, ourDbUp, admin_logs, user_access, user_funnel, api_keys, userStates, adminStates,
                 verticalMenu, notifications>>

\* bot.on('text'), legacy key path, from the duplicate branch on
TextLegacyWrite(h) ==
  /\ h \in inflight
  /\ h.path = "legacy"
  /\ inflight' = inflight \ {h}
  /\ IF h.exists # NULL
     THEN /\ reply' = Duplicate(h.chat, h.exists)
          /\ UNCHANGED api_keys
     ELSE /\ api_keys' = InsertKey(NewKey(h.chat, h.text, h.platform, NULL))
          /\ reply' = Answer(h.chat, "saved")
  /\ userStates' = [userStates EXCEPT ![h.chat] = NULL]
  /\ UNCHANGED <<now, ourDbUp, admin_logs, user_access, user_funnel, adminStates, verticalMenu,
                 notifications>>

\* ------------------------------------------------------------------ inputs
DE == <<"D", "E">>
P755 == <<"7", "5", ".", "5">>
KEY1 == <<"a", "b", "c", "1", "2", "3", "X", "Y", "Z", "_", "-", ".", "l", "o",
          "n", "g", "e", "n", "o", "u", "g", "h", "k", "e", "y", "0", "0">>

\* texts the steps of the funnel are to refuse, and texts they take
Zero == <<"0">>
Abc == <<"a", "b", "c">>
P12abc == <<"1", "2", "a", "b", "c">>
SlashHelp == <<"/", "h", "e", "l", "p">>
SourceMenuOther == <<"4", ".", " ", "O", "t", "h", "e", "r">>
KeyWithBlank == KEY1 \o <<" ", "x">>

\* '12.5000000000000000000000': a number, and long enough to pass for a key
PriceKey == <<"1", "2", ".", "5", "0", "0", "0", "0", "0", "0", "0", "0", "0",
              "0", "0", "0", "0", "0", "0", "0", "0", "0", "0", "0", "0", "0">>

GeoTexts == {DE, SlashHelp, SourceMenuOther}

PriceTexts == {P755, Zero, P12abc}

KeyTexts == {KEY1, Abc, KeyWithBlank}

\* a number that is no key, a key that is no number
UserTexts == {P755, KEY1}

IdUser == <<"1", "2", "3", "4", "5", "6", "7", "8">>
IdAdminA == <<"7", "0", "0", "0", "0", "0", "0", "1">>
IdAdminB == <<"7", "0", "0", "0", "0", "0", "0", "2">>
IdAdminBPadded == <<"0", "0", "7", "0", "0", "0", "0", "0", "0", "2">>
IdShort == <<"1", "2", "3">>

\* the answers to the offer "1. extend, 2. deactivate, 3. cancel"
ChoiceExtend == <<"1">>

\* an answer that is none of the three choices
ChoiceOther == <<"9">>

Choices == {ChoiceExtend, <<"2">>, <<"3">>, <<"9">>}

IdTexts == {IdUser, IdAdminA, IdAdminB, IdAdminBPadded, IdShort}

\* the instants the model looks at: whole grant periods, and the ticks around them
Period == GrantDays * TicksPerDay

MaxTime == MaxDays * TicksPerDay

CoarseTimes == {t \in 0..MaxTime : t % Period = 0}

FineTimes ==
  {t \in 0..MaxTime : t % Period <= Window \/ t % Period >= Period - Window}

\* -------------------------------------------------------- specifications
\* the handlers run one after the other
TextKeyReadAlone(c, text) == Idle /\ TextKeyRead(c, text)

TextLegacyReadAlone(c, text) == Idle /\ TextLegacyRead(c, text)

TextKeyCheckNext == \E h \in inflight, sendOk \in BOOLEAN : TextKeyCheck(h, sendOk)

TextKeyInsertNext == \E h \in inflight : TextKeyInsert(h)

TextLegacyWriteNext == \E h \in inflight : TextLegacyWrite(h)

Operators == {AdminA}

Subscribers == {UserU}

\* The funnel of one subscriber whom one administrator has added; an
\* administrator presses the funnel's entry button as well.
Next ==
  \/ \E c \in Operators : HearsAddUser(c)
  \/ \E c \in Operators : TextAdminWaitingId(c, IdUser)
  \/ \E c \in Operators \cup Subscribers : HearsBeginFunnel(c)
  \/ \E c \in Subscribers, vertical \in Verticals : ActionVertical(c, vertical)
  \/ \E c \in Subscribers : HearsPlatform(c, "1. Meta")
  \/ \E c \in Subscribers : HearsBack(c)
  \/ \E c \in Subscribers, text \in UserTexts : TextDenied(c, text)
  \/ \E c \in Subscribers, text \in UserTexts : TextGeo(c, text)
  \/ \E c \in Subscribers, text \in UserTexts : TextPrice(c, text)
  \/ \E c \in Subscribers, text \in UserTexts : TextKeyReadAlone(c, text)
  \/ TextKeyCheckNext
  \/ TextKeyInsertNext
  \/ \E c \in Subscribers, text \in UserTexts : TextLegacyReadAlone(c, text)
  \/ TextLegacyWriteNext

Spec == Init /\ [][Next]_vars

\* the access store under the dialogue and the operators' procedures, tick by tick
NextAccess ==
  \/ \E t \in FineTimes : Tick(t)
  \/ \E c \in ChatIds : HearsMyStatus(c)
  \/ \E c \in ChatIds : HearsAddUser(c)
  \/ \E c \in ChatIds : HearsAdminExit(c)
  \/ \E c \in ChatIds, text \in IdTexts \cup Choices : TextAdminWaitingId(c, text)
  \/ \E c \in ChatIds : TextLegacyReadAlone(c, ChoiceExtend)
  \/ \E c \in Subscribers, a \in Operators : add_user_access(c, a)
  \/ \E c \in Subscribers, a \in Operators : deactivate_user_access(c, a)

SpecAccess == Init /\ [][NextAccess]_vars

\* the administrators' dialogue alone, tick by tick
NextDialogue ==
  \/ \E t \in FineTimes : Tick(t)
  \/ \E c \in ChatIds : HearsMyStatus(c)
  \/ \E c \in ChatIds : HearsAddUser(c)
  \/ \E c \in ChatIds : HearsAdminExit(c)
  \/ \E c \in ChatIds, text \in IdTexts \cup Choices : TextAdminWaitingId(c, text)
  \/ \E c \in ChatIds, text \in {ChoiceExtend, ChoiceOther} : TextLegacyReadAlone(c, text)

SpecDialogue == Init /\ [][NextDialogue]_vars

\* one subscriber's access runs out or is withdrawn while the funnel is open
NextGate ==
  \/ \E t \in CoarseTimes : Tick(t)
  \/ \E c \in Operators : HearsAddUser(c)
  \/ \E c \in Operators : TextAdminWaitingId(c, IdUser)
  \/ \E c \in Subscribers, a \in Operators : deactivate_user_access(c, a)
  \/ \E c \in Subscribers : HearsBeginFunnel(c)
  \/ \E c \in Subscribers : ActionVertical(c, "Finance / MFO")
  \/ \E c \in Subscribers : HearsPlatform(c, "1. Meta")
  \/ \E c \in Subscribers : HearsBack(c)
  \/ \E c \in Subscribers, text \in UserTexts : TextDenied(c, text)
  \/ \E c \in Subscribers : TextGeo(c, DE)
  \/ \E c \in Subscribers : TextPrice(c, P755)
  \/ \E c \in Subscribers : TextKeyReadAlone(c, KEY1)
  \/ TextKeyCheckNext
  \/ TextKeyInsertNext
  \/ \E c \in Subscribers : TextLegacyReadAlone(c, KEY1)
  \/ TextLegacyWriteNext

SpecGate == Init /\ [][NextGate]_vars

\* the first instants of a grant: the clock moves between two submissions
EarlyTimes == 0..Window

\* one subscriber submits keys one after the other, in the funnel and outside it
NextKeys ==
  \/ \E t \in EarlyTimes : Tick(t)
  \/ \E c \in Operators : HearsAddUser(c)
  \/ \E c \in Operators : TextAdminWaitingId(c, IdUser)
  \/ \E c \in Subscribers : HearsBeginFunnel(c)
  \/ \E c \in Subscribers : ActionVertical(c, "Finance / MFO")
  \/ \E c \in Subscribers : HearsPlatform(c, "1. Meta")
  \/ \E c \in Subscribers : TextGeo(c, DE)
  \/ \E c \in Subscribers : TextPrice(c, P755)
  \/ \E c \in Subscribers, text \in UserTexts : TextKeyReadAlone(c, text)
  \/ TextKeyCheckNext
  \/ TextKeyInsertNext
  \/ \E c \in Subscribers, text \in UserTexts : TextLegacyReadAlone(c, text)
  \/ TextLegacyWriteNext

SpecKeys == Init /\ [][NextKeys]_vars

\* the same submissions when a second handler starts before the first has ended
NextConc ==
  \/ \E c \in Operators : HearsAddUser(c)
  \/ \E c \in Operators : TextAdminWaitingId(c, IdUser)
  \/ \E c \in Subscribers : HearsBeginFunnel(c)
  \/ \E c \in Subscribers : ActionVertical(c, "Finance / MFO")
  \/ \E c \in Subscribers : HearsPlatform(c, "1. Meta")
  \/ \E c \in Subscribers : TextGeo(c, DE)
  \/ \E c \in Subscribers : TextPrice(c, P755)
  \/ \E c \in Subscribers : TextKeyRead(c, KEY1)
  \/ TextKeyCheckNext
  \/ TextKeyInsertNext
  \/ \E c \in Subscribers : TextLegacyRead(c, KEY1)
  \/ TextLegacyWriteNext

SpecConc == Init /\ [][NextConc]_vars

\* ------------------------------------------- getOrCreateUserFunnel, staged
\* bot.hears('🎯 Выбрать вертикаль') handlers between their SELECT and INSERT
BeginHandlers(c) == {h \in inflight : h.chat = c /\ h.path = "begin"}

\* UNIQUE(chat_id) WHERE (NOT is_completed): may a new open row be inserted
FunnelUniqueOkWrong(chatId) == TRUE

FunnelUniqueOk(chatId) == ActiveFunnel(chatId) = {}

\* bot.hears('🎯 Выбрать вертикаль'): the gate and the SELECT of
\* getOrCreateUserFunnel; a row found is returned and the keyboard is sent
BeginFunnelRead(c) ==
  /\ ~Denied(c)
  /\ ourDbUp
  /\ verticalMenu[c] < MaxMenus
  /\ IF ActiveFunnel(c) # {}
     THEN /\ verticalMenu' = [verticalMenu EXCEPT ![c] = @ + 1]
          /\ reply' = Answer(c, "choose_vertical")
          /\ UNCHANGED inflight
     ELSE /\ FreeHandlerIds # {}
          /\ Cardinality(FunnelRows(c)) < MaxFunnels
          /\ inflight' = inflight \cup
               {[hid |-> CHOOSE i \in FreeHandlerIds : TRUE, chat |-> c, text |-> NULL,
                 path |-> "begin", stage |-> "insert", exists |-> NULL,
                 platform |-> NULL, funnel |-> NULL]}
          /\ UNCHANGED <<verticalMenu, reply>>
  /\ UNCHANGED <<now, ourDbUp, admin_logs, user_access, user_funnel, api_keys, userStates,
                 adminStates, notifications>>

\* the INSERT of getOrCreateUserFunnel: refused by the foreign key or by the
\* uniqueness of open rows, the error is rethrown and no keyboard is sent
BeginFunnelWrite(h) ==
  /\ h \in inflight
  /\ h.path = "begin"
  /\ inflight' = inflight \ {h}
  /\ IF ~ourDbUp \/ ~FunnelForeignKeyOk(h.chat) \/ ~FunnelUniqueOk(h.chat)
     THEN /\ reply' = Answer(h.chat, "handler_error")
          /\ UNCHANGED <<user_funnel, verticalMenu>>
     ELSE /\ verticalMenu[h.chat] < MaxMenus
          /\ Cardinality(FunnelRows(h.chat)) < MaxFunnels
          /\ user_funnel' = user_funnel \cup {NewFunnel(h.chat)}
          /\ verticalMenu' = [verticalMenu EXCEPT ![h.chat] = @ + 1]
          /\ reply' = Answer(h.chat, "choose_vertical")
  /\ UNCHANGED <<now, ourDbUp, admin_logs, user_access, api_keys, userStates, adminStates,
                 notifications>>

BeginFunnelWriteNext == \E h \in inflight : BeginFunnelWrite(h)

\* ------------------------------------------------ add-user dialogue, staged
\* chat_id BIGINT UNIQUE NOT NULL: may a row for this chat be inserted
AccessUniqueOkWrong(chatId) == TRUE

AccessUniqueOk(chatId) == AccessRows(chatId) = {}

\* bot.on('text'), step waiting_id, for an id that passes the checks and has
\* no row: up to the answer of the SELECT
AddUserRead(c, text) ==
  /\ InWaitingId(c)
  /\ WaitingIdAnswer(c, text) = "user_added"
  /\ \A h \in inflight : h.chat # c
  /\ FreeHandlerIds # {}
  /\ inflight' = inflight \cup
       {[hid |-> CHOOSE i \in FreeHandlerIds : TRUE, chat |-> c, text |-> text,
         path |-> "add", stage |-> "insert", exists |-> NULL, platform |-> NULL,
         funnel |-> NULL]}
  /\ UNCHANGED <<now, ourDbUp, admin_logs, user_access, user_funnel, api_keys, userStates,
                 adminStates, verticalMenu, reply, notifications>>

\* the INSERT INTO user_access: when it throws, catch answers with the error
\* and finally drops the dialogue
AddUserInsert(h) ==
  /\ h \in inflight
  /\ h.path = "add"
  /\ h.stage = "insert"
  /\ IF ~ourDbUp \/ ~AccessUniqueOk(parseInt(h.text))
     THEN /\ reply' = Answer(h.chat, "add_error")
          /\ adminStates' = [adminStates EXCEPT ![h.chat] = NULL]
          /\ inflight' = inflight \ {h}
          /\ UNCHANGED user_access
     ELSE /\ user_access' = user_access \cup
               {[chat_id |-> parseInt(h.text), granted_at |-> now,
                 expires_at |-> GrantExpiry(0), is_active |-> TRUE,
                 created_by_admin_id |-> h.chat]}
          /\ inflight' = (inflight \ {h}) \cup {[h EXCEPT !.stage = "log"]}
          /\ UNCHANGED <<adminStates, reply>>
  /\ UNCHANGED <<now, ourDbUp, admin_logs, user_funnel, api_keys, userStates, verticalMenu,
                 notifications>>

\* what the administrator is answered after the notice to the new user was
\* tried: a failed send is caught and logged to the console
AddUserAnswerWrong(notifyOk) == IF notifyOk THEN "user_added" ELSE "add_error"

AddUserAnswer(notifyOk) == "user_added"

\* logAdminAction, the notice to the new user, the answer to the
\* administrator, finally
AddUserLog(h, notifyOk) ==
  /\ h \in inflight
  /\ h.path = "add"
  /\ h.stage = "log"
  /\ admin_logs' = logAdminAction(h.chat, "add_user", parseInt(h.text))
  /\ reply' = [Answer(h.chat, AddUserAnswer(notifyOk)) EXCEPT !.notice = Some(notifyOk)]
  /\ adminStates' = [adminStates EXCEPT ![h.chat] = NULL]
  /\ inflight' = inflight \ {h}
  /\ UNCHANGED <<now, ourDbUp, user_access, user_funnel, api_keys, userStates, verticalMenu,
                 notifications>>

AddUserInsertNext == \E h \in inflight : AddUserInsert(h)

AddUserLogNext == \E h \in inflight, notifyOk \in BOOLEAN : AddUserLog(h, notifyOk)

Administrators == {AdminA, AdminB}

\* two administrators in the add-user dialogue at once, and the procedures
NextAdmin ==
  \/ OurDbFails
  \/ OurDbRecovers
  \/ \E c \in Administrators : HearsAddUser(c)
  \/ \E c \in Administrators, text \in {IdUser, IdShort, IdAdminB} :
       TextAdminWaitingId(c, text)
  \/ \E c \in Administrators : AddUserRead(c, IdUser)
  \/ AddUserInsertNext
  \/ AddUserLogNext
  \/ \E c \in Subscribers, a \in Administrators : add_user_access(c, a)
  \/ \E c \in Subscribers, a \in Administrators : deactivate_user_access(c, a)

SpecAdmin == Init /\ [][NextAdmin]_vars

\* a category button pressed while a press of the entry button is in flight
ActionVerticalMeanwhile(c, vertical) ==
  BeginHandlers(c) # {} /\ handleVerticalAction(c, vertical)

\* presses of the funnel's entry button that overlap, between the steps of
\* a funnel that is filled in and closed
NextBegin ==
  \/ \E c \in Subscribers, a \in Operators : add_user_access(c, a)
  \/ \E c \in Operators \cup Subscribers : BeginFunnelRead(c)
  \/ BeginFunnelWriteNext
  \/ \E c \in Subscribers : ActionVertical(c, "Finance / MFO")
  \/ \E c \in Subscribers : ActionVerticalMeanwhile(c, "Finance / MFO")
  \/ \E c \in Subscribers : TextGeo(c, DE)
  \/ \E c \in Subscribers : HearsPlatform(c, "1. Meta")
  \/ \E c \in Subscribers : TextPrice(c, P755)
  \/ \E c \in Subscribers : TextKeyReadAlone(c, KEY1)
  \/ TextKeyCheckNext
  \/ TextKeyInsertNext

SpecBegin == Init /\ [][NextBegin]_vars

\* a subscriber in the funnel whose grant is withdrawn and given back
NextRevoke ==
  \/ \E c \in Subscribers, a \in Operators : add_user_access(c, a)
  \/ \E c \in Subscribers, a \in Operators : deactivate_user_access(c, a)
  \/ \E c \in Subscribers : HearsBeginFunnel(c)
  \/ \E c \in Subscribers : ActionVertical(c, "Finance / MFO")
  \/ \E c \in Subscribers, text \in {DE, P755} : TextDenied(c, text)
  \/ \E c \in Subscribers : TextGeo(c, DE)
  \/ \E c \in Subscribers : HearsPlatform(c, "1. Meta")
  \/ \E c \in Subscribers : TextPrice(c, P755)

SpecRevoke == Init /\ [][NextRevoke]_vars

\* one subscriber walks through the funnel and sends what the steps are to
\* take and what they are to refuse
NextInputs ==
  \/ \E c \in Operators : HearsAddUser(c)
  \/ \E c \in Operators : TextAdminWaitingId(c, IdUser)
  \/ \E c \in Subscribers : HearsBeginFunnel(c)
  \/ \E c \in Subscribers : ActionVertical(c, "Finance / MFO")
  \/ \E c \in Subscribers : HearsPlatform(c, "1. Meta")
  \/ \E c \in Subscribers : TextDenied(c, DE)
  \/ \E c \in Subscribers, text \in GeoTexts : TextGeo(c, text)
  \/ \E c \in Subscribers, text \in PriceTexts : TextPrice(c, text)
  \/ \E c \in Subscribers, text \in KeyTexts : TextKeyReadAlone(c, text)
  \/ TextKeyCheckNext
  \/ TextKeyInsertNext
  \/ \E c \in Subscribers, text \in {SourceMenuOther} : TextLegacyReadAlone(c, text)

SpecInputs == Init /\ [][NextInputs]_vars

\* the access gate while our database fails and recovers; the operators'
\* procedures take any chat id
NextOutage ==
  \/ OurDbFails
  \/ OurDbRecovers
  \/ \E t \in CoarseTimes : Tick(t)
  \/ \E c \in ChatIds : HearsMyStatus(c)
  \/ \E c \in Operators \cup Subscribers, a \in Operators : add_user_access(c, a)
  \/ \E c \in Operators \cup Subscribers, a \in Operators : deactivate_user_access(c, a)
  \/ \E c \in Operators \cup Subscribers : HearsBeginFunnel(c)
  \/ \E c \in Operators \cup Subscribers : HearsBack(c)
  \/ \E c \in Subscribers : TextDenied(c, P755)

SpecOutage == Init /\ [][NextOutage]_vars

\* ------------------------------------------- text steps geo and price, staged
\* the column a text step writes and the step it moves to
StepField(step) == IF step = "geo" THEN "geo" ELSE "conversion_price"

StepAfter(step) == IF step = "geo" THEN "source" ELSE "api_key"

\* the value updateFunnelField is given: the text, or the parsed price
StepValue(step, text) ==
  IF step = "geo" THEN Some(text) ELSE Some(Hundredths(parseFloat(text)))

StepHandlers(c) == {h \in inflight : h.chat = c /\ h.path \in {"geo", "price"}}

\* bot.on('text'): the gate, the SELECT of the open funnel, the dispatch on
\* the current_step it returned and the price test
TextStepRead(c, text) ==
  /\ ~Heard(text)
  /\ NoDialogue(c)
  /\ ~Denied(c)
  /\ ourDbUp
  /\ ActiveFunnel(c) # {}
  /\ TheFunnel(c).current_step \in {"geo", "price"}
  /\ FreeHandlerIds # {}
  /\ IF TheFunnel(c).current_step = "price" /\ PriceRejected(text)
     THEN /\ reply' = AnswerTo(c, "bad_price", text)
          /\ UNCHANGED inflight
     ELSE /\ inflight' = inflight \cup
               {[hid |-> CHOOSE i \in FreeHandlerIds : TRUE, chat |-> c, text |-> text,
                 path |-> TheFunnel(c).current_step, stage |-> "field",
                 exists |-> NULL, platform |-> NULL, funnel |-> Some(TheFunnel(c))]}
          /\ UNCHANGED reply
  /\ UNCHANGED <<now, ourDbUp, admin_logs, user_access, user_funnel, api_keys, userStates,
                 adminStates, verticalMenu, notifications>>

\* await updateFunnelField(chatId, field, value): its own connection, its
\* errors caught and printed
TextStepField(h) ==
  /\ h \in inflight
  /\ h.path \in {"geo", "price"}
  /\ h.stage = "field"
  /\ user_funnel' =
       IF ColumnTakes(StepField(h.path), h.text)
       THEN updateFunnelField(user_funnel, h.chat, StepField(h.path),
                              StepValue(h.path, h.text))
       ELSE user_funnel
  /\ inflight' = (inflight \ {h}) \cup {[h EXCEPT !.stage = "step"]}
  /\ UNCHANGED <<now, ourDbUp, admin_logs, user_access, api_keys, userStates, adminStates,
                 verticalMenu, reply, notifications>>

\* await updateFunnelStep(chatId, next) and the prompt of the next step
TextStepStep(h) ==
  /\ h \in inflight
  /\ h.path \in {"geo", "price"}
  /\ h.stage = "step"
  /\ user_funnel' = updateFunnelStep(user_funnel, h.chat, StepAfter(h.path))
  /\ reply' = AnswerTo(h.chat, IF h.path = "geo" THEN "ask_source" ELSE "ask_key", h.text)
  /\ inflight' = inflight \ {h}
  /\ UNCHANGED <<now, ourDbUp, admin_logs, user_access, api_keys, userStates, adminStates,
                 verticalMenu, notifications>>

\* a source button pressed while a handler of a text step is in flight
HearsPlatformMeanwhile(c, label) ==
  StepHandlers(c) # {} /\ handlePlatformPress(c, label)

TextStepFieldNext == \E h \in inflight : TextStepField(h)

TextStepStepNext == \E h \in inflight : TextStepStep(h)

\* '100000000': a number DECIMAL(10,2) has no room for
BigPrice == <<"1", "0", "0", "0", "0", "0", "0", "0", "0">>

StepTexts == {DE, P755}

\* a subscriber's texts at the steps geo and price, their handlers running
\* statement by statement while other messages arrive
NextSteps ==
  \/ \E c \in Subscribers, a \in Operators : add_user_access(c, a)
  \/ \E c \in Subscribers : HearsBeginFunnel(c)
  \/ \E c \in Subscribers : ActionVertical(c, "Finance / MFO")
  \/ \E c \in Subscribers : HearsPlatform(c, "1. Meta")
  \/ \E c \in Subscribers : HearsPlatformMeanwhile(c, "1. Meta")
  \/ \E c \in Subscribers, text \in StepTexts : TextStepRead(c, text)
  \/ TextStepFieldNext
  \/ TextStepStepNext

SpecSteps == Init /\ [][NextSteps]_vars

\* the same, with no other handler in flight
TextStepReadAlone(c, text) == Idle /\ TextStepRead(c, text)

FieldTexts == {DE, P755, BigPrice}

\* one handler at a time, statement by statement, while our database fails
\* and recovers and a price arrives that the column has no room for
NextFields ==
  \/ OurDbFails
  \/ OurDbRecovers
  \/ \E c \in Subscribers, a \in Operators : add_user_access(c, a)
  \/ \E c \in Subscribers : HearsBeginFunnel(c)
  \/ \E c \in Subscribers : ActionVertical(c, "Finance / MFO")
  \/ \E c \in Subscribers : HearsPlatform(c, "1. Meta")
  \/ \E c \in Subscribers, text \in FieldTexts : TextStepReadAlone(c, text)
  \/ TextStepFieldNext
  \/ TextStepStepNext

SpecFields == Init /\ [][NextFields]_vars

\* the first instants after a funnel was opened
StaleTimes == 0..(Window + 1)

\* a subscriber's funnel is opened, moved forward and back, and left alone,
\* while the clock moves
NextStale ==
  \/ \E t \in StaleTimes : Tick(t)
  \/ \E c \in Subscribers, a \in Operators : add_user_access(c, a)
  \/ \E c \in Subscribers : HearsBeginFunnel(c)
  \/ \E c \in Subscribers : ActionVertical(c, "Finance / MFO")
  \/ \E c \in Subscribers : TextGeo(c, DE)
  \/ \E c \in Subscribers : HearsPlatform(c, "1. Meta")
  \/ \E c \in Subscribers : HearsBack(c)
  \/ \E c \in Subscribers : TextPrice(c, P755)

SpecStale == Init /\ [][NextStale]_vars

\* a subscriber's messages arrive twice, the second delivery handled after the
\* first has ended
RetryTexts == {DE, P755, PriceKey}

NextRetry ==
  \/ \E c \in Subscribers, a \in Operators : add_user_access(c, a)
  \/ \E c \in Subscribers : HearsBeginFunnel(c)
  \/ \E c \in Subscribers : ActionVertical(c, "Finance / MFO")
  \/ \E c \in Subscribers : HearsPlatform(c, "1. Meta")
  \/ \E c \in Subscribers, text \in RetryTexts : TextGeo(c, text)
  \/ \E c \in Subscribers, text \in RetryTexts : TextPrice(c, text)
  \/ \E c \in Subscribers, text \in RetryTexts : TextKeyReadAlone(c, text)
  \/ TextKeyCheckNext
  \/ TextKeyInsertNext
  \/ \E c \in Subscribers, text \in RetryTexts : TextLegacyReadAlone(c, text)
  \/ TextLegacyWriteNext

SpecRetry == Init /\ [][NextRetry]_vars

\* ------------------------------- revision 6.0 (src/src/bot.ts, lines 1-668)
\* One database and one table: a row of api_keys is a stored key or a
\* subscription record, told apart by which columns are set.  The variable
\* api_keys holds the rows of that table in the specifications of this
\* revision.
TrialDays == 10

\* const adminIds = [...]; adminIds.includes(chatId)
adminIds6 == {AdminA}

isAdmin6(chatId) == chatId \in adminIds6

UserRows6(chatId) == {k \in api_keys : k.telegram_chat_id = chatId}

\* ORDER BY created_at DESC LIMIT 1: any of the rows created last
LatestRows6(chatId) ==
  {k \in UserRows6(chatId) : \A j \in UserRows6(chatId) : j.created_at <= k.created_at}

\* expiresAt && new Date(expiresAt) < new Date()
Expired6(row) ==
  row.subscription_expires_at # NULL /\ row.subscription_expires_at[1] < now

\* checkUserSubscription: what it returns when the SELECT returned this row
\* (<<>> for no row); isValid is the constant true in each return
SubscriptionOf(row) ==
  IF row = NULL THEN [status |-> "none", expiresAt |-> NULL, isValid |-> TRUE]
  ELSE IF Expired6(row[1])
  THEN [status |-> "expired", expiresAt |-> row[1].subscription_expires_at,
        isValid |-> TRUE]
  ELSE [status |-> IF row[1].subscription_status = NULL THEN "none"
                   ELSE row[1].subscription_status[1],
        expiresAt |-> row[1].subscription_expires_at,
        isValid |-> TRUE]

\* the rows the SELECT of checkUserSubscription may return
SelectLatest6(chatId) ==
  IF UserRows6(chatId) = {} THEN {NULL} ELSE {Some(k) : k \in LatestRows6(chatId)}

\* the results checkUserSubscription may return for a chat
checkUserSubscription(chatId) == {SubscriptionOf(row) : row \in SelectLatest6(chatId)}

\* UPDATE api_keys SET subscription_status = 'expired'
\* WHERE telegram_chat_id = $1 AND subscription_status != 'expired'
MarkExpired6(chatId) ==
  {IF k.telegram_chat_id = chatId /\ k.subscription_status # NULL
      /\ k.subscription_status # Some("expired")
   THEN [k EXCEPT !.subscription_status = Some("expired")] ELSE k : k \in api_keys}

\* the table after checkUserSubscription has run on this row
AfterCheck6(chatId, row) ==
  IF row # NULL /\ Expired6(row[1]) THEN MarkExpired6(chatId) ELSE api_keys

\* activateSubscription(targetChatId, type): every row of the user is
\* updated, or a record without a key is inserted
activateSubscription(targetChatId, type) ==
  LET expiresAt == Some(now + (IF type = "trial" THEN TrialDays ELSE GrantDays) * TicksPerDay)
  IN IF UserRows6(targetChatId) # {}
     THEN {IF k.telegram_chat_id = targetChatId
           THEN [k EXCEPT !.subscription_status = Some(type),
                          !.subscription_expires_at = expiresAt]
           ELSE k : k \in api_keys}
     ELSE api_keys \cup
          {[id |-> Cardinality(api_keys) + 1, telegram_chat_id |-> targetChatId,
            api_key |-> NULL, subscription_status |-> Some(type),
            subscription_expires_at |-> expiresAt, platform |-> "user",
            created_at |-> now]}

\* INSERT INTO api_keys (telegram_chat_id, api_key, platform, created_at,
\* updated_at): the subscription columns are not named and stay empty
NewKey6(chatId, text) ==
  [id |-> Cardinality(api_keys) + 1, telegram_chat_id |-> chatId,
   api_key |-> Some(text), subscription_status |-> NULL,
   subscription_expires_at |-> NULL, platform |-> "api_key_saved",
   created_at |-> now]

\* ctx.session as the text handler finds it: the two admin buttons assign
\* ctx.session on the context of their own update, no session middleware
\* stores it, and the middleware that would set it to {} is registered last
Session6(c) == NULL

\* bot.hears('⚡ Активировать подписку') / ('🆓 Активировать пробную версию')
HearsActivate6(c) ==
  /\ reply' = IF isAdmin6(c) THEN Answer(c, "ask_target_id") ELSE Answer(c, "admins_only")
  /\ UNCHANGED <<now, ourDbUp, admin_logs, user_access, user_funnel, api_keys, userStates,
                 adminStates, verticalMenu, inflight, notifications>>

\* bot.start: checkUserSubscription with its UPDATE, and the greeting that
\* shows the status.  The status button is registered after bot.on('text'),
\* which returns on its label, so /start is the one caller of the check.
Start6(c) ==
  /\ \E row \in SelectLatest6(c) :
       /\ api_keys' = AfterCheck6(c, row)
       /\ reply' = [Answer(c, SubscriptionOf(row).status)
                      EXCEPT !.since = SubscriptionOf(row).expiresAt]
  /\ UNCHANGED <<now, ourDbUp, admin_logs, user_access, user_funnel, userStates,
                 adminStates, verticalMenu, inflight, notifications>>

\* the subscription check the key intake makes: it is commented out
KeyIntakeChecks(c) == FALSE

\* the digits parseInt reads: the longest prefix of digits
RECURSIVE LeadingDigits(_)
LeadingDigits(text) ==
  IF text = <<>> \/ text[1] \notin Digits THEN <<>>
  ELSE <<text[1]>> \o LeadingDigits(Tail(text))

\* bot.on('text'): the activation dialogue, then the key intake
Text6(c, text) ==
  /\ text # <<>> /\ text[1] # "/"
  /\ IF Session6(c) # NULL
     THEN /\ IF LeadingDigits(text) # <<>>
             THEN /\ api_keys' = activateSubscription(parseInt(LeadingDigits(text)),
                                                      Session6(c)[1])
                  /\ reply' = Answer(c, "activated")
             ELSE /\ reply' = Answer(c, "bad_id")
                  /\ UNCHANGED api_keys
     ELSE IF KeyShaped(text)
     THEN IF KeyIntakeChecks(c)
          THEN /\ reply' = AnswerTo(c, "not_subscribed", text)
               /\ UNCHANGED api_keys
          ELSE IF \E k \in UserRows6(c) : k.api_key = Some(text)
          THEN /\ reply' = AnswerTo(c, "duplicate", text)
               /\ UNCHANGED api_keys
          ELSE /\ api_keys' = api_keys \cup {NewKey6(c, text)}
               /\ reply' = AnswerTo(c, "saved", text)
     ELSE /\ reply' = AnswerTo(c, "use_menu", text)
          /\ UNCHANGED api_keys
  /\ UNCHANGED <<now, ourDbUp, admin_logs, user_access, user_funnel, userStates,
                 adminStates, verticalMenu, inflight, notifications>>

\* a second key
KEY2 == <<"K">> \o KEY1

Texts6 == {KEY1, KEY2, IdUser}

\* an administrator and a user of revision 6.0
NextV6 ==
  \/ \E t \in EarlyTimes : Tick(t)
  \/ \E c \in {AdminA, UserU} : HearsActivate6(c)
  \/ \E c \in {AdminA, UserU} : Start6(c)
  \/ \E c \in {AdminA, UserU}, text \in Texts6 : Text6(c, text)

SpecV6 == Init /\ [][NextV6]_vars

\* ---------------------------- revision 3.1 (src/src/bot.ts, lines 669-1951)
\* The access check, the administrators' menu and the add-user dialogue are
\* those of revision 3.3 but for the INSERT, which is a CALL here; the
\* handlers are registered in another order and there is no funnel.

\* the labels pressed in this revision, as texts; the emoji and the Cyrillic
\* words of a label are written as one word after "#"
LabelAddUser31 == <<"#", "a", "d", "d">>

LabelSendKey31 == <<"#", "k", "e", "y">>

PlatformTexts31 == {LabelText(label) : label \in PlatformLabels}

LabelOf31(text) == CHOOSE label \in PlatformLabels : LabelText(label) = text

\* menuItems of bot.on('text'): the main-menu and platform labels it returns on
menuItems31 == {LabelSendKey31} \cup PlatformTexts31

\* the handlers in the order of their registration
Registered31 ==
  <<"start", "command_myid", "command_admin", "hears_admin_exit", "hears_add_user",
    "hears_list", "hears_stats", "on_text", "hears_main_menu", "hears_support",
    "hears_send_key", "hears_status", "hears_platform", "hears_back">>

\* the trigger of a handler, for the texts sent in this revision
Matches31(handler, text) ==
  CASE handler = "hears_add_user" -> text = LabelAddUser31
    [] handler = "on_text" -> TRUE
    [] handler = "hears_send_key" -> text = LabelSendKey31
    [] handler = "hears_platform" -> text \in PlatformTexts31
    [] OTHER -> FALSE

\* Telegraf offers an update to the handlers in the order of registration; no
\* handler of this revision calls next(), so the first that matches is the
\* only one to run
Handles31(text) ==
  Registered31[CHOOSE i \in 1..Len(Registered31) :
                 /\ Matches31(Registered31[i], text)
                 /\ \A j \in 1..(i - 1) : ~Matches31(Registered31[j], text)]

\* bot.hears('🔑 Отправить API-ключ')
hearsSendKey31(c) ==
  /\ reply' = IF Denied(c) THEN Answer(c, "denied") ELSE Answer(c, "choose_platform")
  /\ UNCHANGED <<now, ourDbUp, admin_logs, user_access, user_funnel, api_keys, userStates,
                 adminStates, verticalMenu, inflight, notifications>>

\* bot.hears(['1. Meta', '2. Tik Tok', '3. Google', '4. Others'])
hearsPlatform31(c, text) ==
  /\ IF Denied(c)
     THEN /\ reply' = AnswerTo(c, "denied", text)
          /\ UNCHANGED userStates
     ELSE /\ userStates' = [userStates EXCEPT ![c] =
               Some([platform |-> LegacyPlatform(LabelOf31(text)), waitingForKey |-> TRUE])]
          /\ reply' = AnswerTo(c, "ask_key", text)
  /\ UNCHANGED <<now, ourDbUp, admin_logs, user_access, user_funnel, api_keys, adminStates,
                 verticalMenu, inflight, notifications>>

\* bot.on('text'), admin branch, step waiting_id: as in revision 3.3, the new
\* row being written by CALL add_user_access, which also logs add_access
textWaitingId31(c, text) ==
  /\ reply' = Answer(c, WaitingIdAnswer(c, text))
  /\ adminStates' = IF WaitingIdAnswer(c, text) = "bad_chat_id_format" THEN adminStates
                    ELSE [adminStates EXCEPT ![c] = NULL]
  /\ user_access' =
       IF WaitingIdAnswer(c, text) = "user_added"
       THEN user_access \cup
              {[chat_id |-> parseInt(text), granted_at |-> now,
                expires_at |-> now + GrantDays * TicksPerDay, is_active |-> TRUE,
                created_by_admin_id |-> c]}
       ELSE user_access
  /\ admin_logs' =
       IF WaitingIdAnswer(c, text) = "user_added"
       THEN admin_logs \cup {LogEntry(c, "add_access", parseInt(text)),
                              LogEntry(c, "add_user", parseInt(text))}
       ELSE admin_logs
  /\ UNCHANGED <<now, ourDbUp, user_funnel, api_keys, userStates, verticalMenu, inflight,
                 notifications>>

userWaits31(c) == userStates[c] # NULL /\ userStates[c][1].waitingForKey

\* bot.on('text') after the admin branch: the access gate, the return on
\* commands and menu labels, the key intake
textUser31(c, text) ==
  /\ IF Denied(c)
     THEN /\ reply' = AnswerTo(c, "denied", text)
          /\ UNCHANGED <<api_keys, userStates>>
     ELSE IF text[1] = "/" \/ text \in menuItems31
     THEN /\ reply' = Silent(c)
          /\ UNCHANGED <<api_keys, userStates>>
     ELSE IF KeyShaped(text) /\ userWaits31(c)
     THEN /\ IF \E k \in api_keys : k.chat_id = c /\ k.api_key = text
             THEN /\ reply' = AnswerTo(c, "duplicate", text)
                  /\ UNCHANGED api_keys
             ELSE /\ api_keys' = InsertKey(NewKey(c, text, userStates[c][1].platform, NULL))
                  /\ reply' = AnswerTo(c, "saved", text)
          /\ userStates' = [userStates EXCEPT ![c] = NULL]
     ELSE IF userWaits31(c)
     THEN /\ reply' = AnswerTo(c, "not_a_key", text)
          /\ UNCHANGED <<api_keys, userStates>>
     ELSE /\ reply' = IF isAdmin(c) THEN Silent(c) ELSE AnswerTo(c, "use_menu", text)
          /\ UNCHANGED <<api_keys, userStates>>
  /\ UNCHANGED <<now, ourDbUp, admin_logs, user_access, user_funnel, adminStates,
                 verticalMenu, inflight, notifications>>

\* bot.on('text')
onText31(c, text) ==
  IF InWaitingId(c) THEN textWaitingId31(c, text)
  ELSE IF InConfirmAction(c) THEN TextAdminConfirm(c, text)
  ELSE textUser31(c, text)

\* one message of a chat, taken by the handler registered first for it
Message31(c, text) ==
  CASE Handles31(text) = "hears_add_user" -> HearsAddUser(c)
    [] Handles31(text) = "on_text" -> onText31(c, text)
    [] Handles31(text) = "hears_send_key" -> hearsSendKey31(c)
    [] Handles31(text) = "hears_platform" -> hearsPlatform31(c, text)

\* the days before the expiry at which a reminder of this type is due
LeadDays(type) == IF type = "expire_3days" THEN 3 ELSE 1

\* ua.expires_at BETWEEN NOW() + INTERVAL 'n days' AND NOW() + INTERVAL 'n days
\* 1 hour': an hour is shorter than a tick, so the window holds one instant of
\* the clock
InReminderWindow(row, type) == row.expires_at = now + LeadDays(type) * TicksPerDay

\* NOT EXISTS (SELECT 1 FROM notifications WHERE user_id = ua.chat_id AND
\* notification_type = ...)
Notified(chatId, type) ==
  \E n \in notifications : n.user_id = chatId /\ n.notification_type = type

\* the rows a SELECT of checkExpiringSubscriptions returns
ExpiringRows(type) ==
  {r \in user_access : r.is_active /\ InReminderWindow(r, type) /\ ~Notified(r.chat_id, type)}

\* INSERT INTO notifications (user_id, notification_type); created_at DEFAULT NOW()
NewNotification(chatId, type) ==
  [user_id |-> chatId, notification_type |-> type, created_at |-> now]

ReminderTypes == {"expire_3days", "expire_1day"}

\* the rows of one run whose message Telegram delivers: for the others
\* sendMessage throws and the catch block of the row only logs
Delivered(type, reachable) == {r \in ExpiringRows(type) : r.chat_id \in reachable}

\* checkExpiringSubscriptions, run by cron at the start of every hour: a
\* message and a row of notifications for each expiring grant
checkExpiringSubscriptions(reachable) ==
  /\ IF ~ourDbUp
     THEN /\ reply' = NoReply
          /\ UNCHANGED notifications
     ELSE /\ notifications' = notifications \cup
               {NewNotification(r.chat_id, type) :
                  <<r, type>> \in {x \in user_access \X ReminderTypes :
                                    x[1] \in Delivered(x[2], reachable)}}
          /\ IF \A type \in ReminderTypes : Delivered(type, reachable) = {}
             THEN reply' = NoReply
             ELSE \E type \in ReminderTypes : \E r \in Delivered(type, reachable) :
                    reply' = Answer(r.chat_id, type)
  /\ UNCHANGED <<now, ourDbUp, admin_logs, user_access, user_funnel, api_keys, userStates,
                 adminStates, verticalMenu, inflight>>

Texts31 == {LabelAddUser31, LabelSendKey31, LabelText("1. Meta"), KEY1, IdUser}

\* an administrator and a user of revision 3.1
NextV31 ==
  \/ \E t \in EarlyTimes : Tick(t)
  \/ \E c \in Subscribers, a \in Operators : add_user_access(c, a)
  \/ \E c \in {AdminA, UserU}, text \in Texts31 : Message31(c, text)

SpecV31 == Init /\ [][NextV31]_vars

\* the instants at which reminders fall due for a grant made at 0 and for one
\* extended a day after its first reminder
RemindTimes ==
  {1, (GrantDays - 3) * TicksPerDay, (GrantDays - 2) * TicksPerDay,
   (GrantDays - 1) * TicksPerDay, (2 * GrantDays - 5) * TicksPerDay,
   (2 * GrantDays - 3) * TicksPerDay}

\* the hourly job, an administrator's dialogue and the operators' procedure
NextRemind ==
  \/ \E t \in RemindTimes : Tick(t)
  \/ \E c \in Subscribers, a \in Operators : add_user_access(c, a)
  \/ \E text \in {LabelAddUser31, IdUser} : Message31(AdminA, text)
  \/ \E reachable \in SUBSET Subscribers : checkExpiringSubscriptions(reachable)

SpecRemind == Init /\ [][NextRemind]_vars

\* ------------------------------------------------------------------ claims
\* a step in which chat c's press of the funnel's entry button got past the gate
BeginFunnelCall(c) ==
  /\ reply'.to = c
  /\ reply'.kind \in {"choose_vertical", "handler_error"}
  /\ verticalMenu' # verticalMenu \/ reply' # reply

\* C1: after every beginFunnel call of a user the gate lets through, exactly
\* one incomplete funnel exists for that user; a call made while one exists
\* leaves it as it was, and a call made while none exists creates one at step
\* 'vertical' with no field captured.
C1_BeginFunnelIdempotent ==
  [][\A c \in ChatIds : BeginFunnelCall(c) =>
       /\ Cardinality(ActiveFunnel(c)') = 1
       /\ ActiveFunnel(c) # {} => ActiveFunnel(c)' = ActiveFunnel(c)
       /\ ActiveFunnel(c) = {} =>
            \A f \in ActiveFunnel(c)' :
              /\ f.current_step = "vertical"
              /\ f.vertical = NULL /\ f.geo = NULL /\ f.source = NULL
              /\ f.conversion_price = NULL /\ f.api_key = NULL]_vars

\* C2: whatever the user does, the step of an open funnel stays, moves to the
\* next step of vertical -> geo -> source -> price -> api_key, or moves one
\* step back through the back button; this includes a category chosen from a
\* keyboard that is on screen while the funnel is at a later step.
C2_StepMonotone ==
  [][\A c \in ChatIds : \A f \in ActiveFunnel(c) : \A g \in ActiveFunnel(c)' :
       g.id = f.id =>
         \/ StepIndex(g.current_step) = StepIndex(f.current_step)
         \/ StepIndex(g.current_step) = StepIndex(f.current_step) + 1
         \/ /\ StepIndex(g.current_step) = StepIndex(f.current_step) - 1
            /\ reply' = Answer(c, "back")]_vars

\* the step in which the suspended handler h runs to its end
KeyHandlerEnds(h) == h \in inflight /\ \A g \in inflight' : g.hid # h.hid

\* C3: when the handlers run one after the other, a key-shaped text that the
\* user has not stored yet is answered "saved" and gets exactly one row, stamped
\* with the time of the submission; a text the user has stored already is
\* answered "duplicate" with the created_at of the stored row, and the table
\* is left as it is: one row for that user and text.
C3_SavedThenDuplicate ==
  [][\A h \in inflight : KeyHandlerEnds(h) =>
       IF KeyRows(h.chat, h.text) = {}
       THEN /\ reply' = Answer(h.chat, "saved")
            /\ Cardinality(KeyRows(h.chat, h.text)') = 1
            /\ \A k \in KeyRows(h.chat, h.text)' : k.created_at = now
       ELSE /\ Cardinality(KeyRows(h.chat, h.text)) = 1
            /\ \A k \in KeyRows(h.chat, h.text) :
                 reply' = Duplicate(h.chat, Some(k.created_at))
            /\ api_keys' = api_keys]_vars

\* the second submission, later than the first, reports the first one's time
C3_Witness ==
  /\ now > 0
  /\ reply = Duplicate(UserU, Some(0))
  /\ Cardinality(KeyRows(UserU, KEY1)) = 1
  /\ inflight = {}

\* C4: in every reachable state, also when two handlers of the same user
\* overlap, the key table holds at most one row for a user and a key text.
C4_OneRowPerUserAndKey ==
  \A k1 \in api_keys, k2 \in api_keys :
    (k1.chat_id = k2.chat_id /\ k1.api_key = k2.api_key) => k1 = k2

\* C5: for a user who is no administrator and whose grant is active, access
\* is granted at every instant before expires_at and refused at expires_at
\* and at every instant after it.
C5_FlipsAtExpiry ==
  \A c \in ChatIds : ~isAdmin(c) =>
    \A r \in AccessRows(c) : r.is_active =>
      (checkUserAccess(c).hasAccess <=> now < r.expires_at)

\* the instant of expiry itself: the grant is active and access is refused
C5_Witness ==
  \E r \in AccessRows(UserU) :
    r.is_active /\ now = r.expires_at /\ ~checkUserAccess(UserU).hasAccess

\* the rows of the two stores that belong to chat c
StoresOf(c) == <<FunnelRows(c), {k \in api_keys : k.chat_id = c}>>

\* C6: while a user who is no administrator has no valid access, nothing the
\* user sends changes the user's funnels or keys.
C6_DeniedChangesNothing ==
  [][\A c \in ChatIds : Denied(c) => StoresOf(c)' = StoresOf(c)]_vars

\* C7: when the handler of a key-shaped text at step api_key ends with "saved"
\* or "duplicate", the user has no incomplete funnel left.
C7_KeyStepCompletes ==
  [][\A h \in inflight :
       (KeyHandlerEnds(h) /\ h.path = "funnel"
          /\ reply'.kind \in {"saved", "duplicate"})
       => ActiveFunnel(h.chat)' = {}]_vars

\* the administrator c, shown the choices for a user who has a grant, sends "1"
AnswersExtend(c) ==
  /\ reply = Answer(c, "already_exists")
  /\ reply' \in {Answer(c, "extended"), Silent(c)}

\* C8: when the dialogue has found that the user has a grant and the
\* administrator answers "1", the grant expires 30 days after that answer.
C8_SecondGrantFromNow ==
  [][\A c \in ChatIds : AnswersExtend(c) =>
       \A r \in user_access' : r.expires_at = now + GrantDays * TicksPerDay]_vars

\* the ids of the administrators as a dialogue may receive them
AdminIdTexts == {IdAdminA, IdAdminB, IdAdminBPadded}

\* C9: no row of user_access carries an administrator's id, and the step
\* waiting_id answers an administrator's id, the acting one's or another's, with
\* a rejection.
C9_AdminsNeverGranted ==
  /\ \A r \in user_access : ~isAdmin(r.chat_id)
  /\ \A c \in ChatIds, text \in AdminIdTexts :
       isAdmin(c) =>
         WaitingIdAnswer(c, text) =
           IF parseInt(text) = c THEN "reject_self" ELSE "reject_admin"

\* an administrator has just been refused another administrator's id, while a
\* subscriber holds a grant
C9_Witness ==
  /\ reply = Answer(AdminA, "reject_admin")
  /\ adminStates[AdminA] = NULL
  /\ AccessRows(UserU) # {}

\* C10 as stated: no grant, no access; with a grant, access is is_active and
\* expires_at > now, and the days left are max(0, ceil((expires_at - now) / day))
\* whatever is_active and expires_at are.
C10_AsStated ==
  \A c \in ChatIds : ~isAdmin(c) =>
    IF AccessRows(c) = {} THEN ~checkUserAccess(c).hasAccess
    ELSE \A r \in AccessRows(c) :
           /\ checkUserAccess(c).hasAccess <=> (r.is_active /\ r.expires_at > now)
           /\ checkUserAccess(c).daysLeft =
                Max(0, CeilDiv(r.expires_at - now, TicksPerDay))

\* C10 amended: the days left follow that formula when access is granted and
\* are 0 when it is refused.
C10_DaysLeftWhenAllowed ==
  \A c \in ChatIds : ~isAdmin(c) =>
    IF AccessRows(c) = {} THEN checkUserAccess(c) = NoAccess
    ELSE \A r \in AccessRows(c) :
           /\ checkUserAccess(c).hasAccess <=> (r.is_active /\ r.expires_at > now)
           /\ checkUserAccess(c).daysLeft =
                IF r.is_active /\ r.expires_at > now
                THEN (r.expires_at - now + TicksPerDay - 1) \div TicksPerDay
                ELSE 0

\* right after a 30-day grant: access with 30 days left
C10_Witness ==
  \E r \in AccessRows(UserU) :
    /\ r.is_active
    /\ r.expires_at = now + GrantDays * TicksPerDay
    /\ checkUserAccess(UserU).hasAccess
    /\ checkUserAccess(UserU).daysLeft = GrantDays

\* the column each step of the sequence captures
Fields == <<"vertical", "geo", "source", "conversion_price", "api_key">>

\* C11: a column of an open funnel changes only while the funnel is at that
\* column's own step, and the write moves the funnel to the step that follows
\* (after the key: to completion).
C11_FieldsWrittenAtOwnStep ==
  [][\A c \in ChatIds : \A f \in ActiveFunnel(c) : \A g \in FunnelRows(c)' :
       g.id = f.id =>
         \A i \in 1..Len(Fields) :
           g[Fields[i]] # f[Fields[i]] =>
             /\ f.current_step = Steps[i]
             /\ IF i < Len(Steps)
                THEN g.current_step = Steps[i + 1] /\ ~g.is_completed
                ELSE g.is_completed]_vars

C13_FailureIsNotDenial ==
  [][\A c \in ChatIds : (~isAdmin(c) /\ ~ourDbUp /\ reply'.to = c /\ reply' # reply) =>
       /\ checkUserAccess(c) # NoAccess
       /\ reply'.kind # "denied"]_vars

\* C14: for every administrator checkUserAccess returns hasAccess = TRUE with
\* 999 days left, whatever rows user_access holds and whether or not our
\* database can be reached.
C14_AdminsAlwaysPass ==
  \A c \in ChatIds : isAdmin(c) =>
    /\ checkUserAccess(c).hasAccess
    /\ checkUserAccess(c).daysLeft = 999

\* an administrator with a deactivated row acts while the database is down
C14_Witness ==
  /\ ~ourDbUp
  /\ \E r \in AccessRows(AdminA) : ~r.is_active
  /\ reply = Answer(AdminA, "menu")
  /\ checkUserAccess(AdminA).hasAccess

\* chat c, allowed and at the step, is answered for one of the texts
InputAt(c, step, texts) ==
  /\ ~Denied(c)
  /\ AtStep(c, step)
  /\ reply' # reply
  /\ reply'.to = c
  /\ reply'.text \in {Some(t) : t \in texts}

IsNumeral(text) ==
  LET s == IF text # <<>> /\ text[1] \in {"-", "+"} THEN Tail(text) ELSE text
  IN \E k \in 1..Len(s) :
       /\ \A j \in 1..k : s[j] \in Digits
       /\ \/ k = Len(s)
          \/ /\ k + 1 < Len(s)
             /\ s[k + 1] = "."
             /\ \A j \in (k + 2)..Len(s) : s[j] \in Digits

\* C16: the price step takes a text (stores the price, moves on to the key
\* step) only if the text denotes a number greater than 0, and it stores
\* that number
C16_OnlyNumbersArePrices ==
  [][\A c \in ChatIds :
       (InputAt(c, "price", PriceTexts) /\ FunnelRows(c)' # FunnelRows(c)) =>
         /\ IsNumeral(reply'.text[1])
         /\ ~PriceRejected(reply'.text[1])
         /\ \E g \in FunnelRows(c)' :
              /\ g.id = TheFunnel(c).id
              /\ g.current_step = "api_key"
              /\ g.conversion_price = Some(Hundredths(parseFloat(reply'.text[1])))]_vars

\* C17: a text is taken as a key only if it is long enough and each of its
\* characters is a letter, a digit, '.', '_' or '-': every stored key and
\* every key on its way into the table is of that shape
C17_KeysAreWellFormed ==
  \A text \in {k.api_key : k \in api_keys} \cup {h.text : h \in inflight} :
    /\ Len(text) >= MinKeyLen
    /\ \A i \in 1..Len(text) : text[i] \in KeyChars

\* C18: at the source step a press of any button of the keyboard shown for
\* that step is recognised: the source is stored and the step becomes price
C18_ShownSourcesAreHeard ==
  [][\A c \in ChatIds :
       InputAt(c, "source", SourceMenuTexts) =>
         \E g \in FunnelRows(c)' :
           /\ g.id = TheFunnel(c).id
           /\ g.source # NULL
           /\ g.current_step = "price"]_vars

\* a text that begins with '/'
IsSlashCommand(text) == text # <<>> /\ text[1] = "/"

\* the labels of the reply keyboards and the slash commands
IsReservedToken(text) ==
  \/ text \in SourceMenuTexts
  \/ Heard(text)
  \/ IsSlashCommand(text)

\* C19: a button label or a slash command sent at the geography step is
\* navigation: no funnel row holds one as its geography
C19_NoTokenAsGeography ==
  \A f \in user_funnel : f.geo # NULL => ~IsReservedToken(f.geo[1])

\* C20: the back button pressed while the open funnel is at geo, source,
\* price or api_key moves the funnel to the step before and changes no
\* other column of the row
C20_BackMovesOneStepBack ==
  [][\A c \in ChatIds :
       (/\ HearsBack(c)
        /\ ~Denied(c)
        /\ ActiveFunnel(c) # {}
        /\ TheFunnel(c).current_step \in {"geo", "source", "price", "api_key"}) =>
         ActiveFunnel(c)' =
           {[TheFunnel(c) EXCEPT !.current_step = Steps[StepIndex(@) - 1]]}]_vars

\* C21: the back button pressed while the open funnel is at vertical ends the
\* funnel: no open funnel of the user remains, and the main menu is shown
C21_BackAtVerticalExits ==
  [][\A c \in ChatIds :
       (HearsBack(c) /\ ~Denied(c) /\ AtStep(c, "vertical")) =>
         /\ ActiveFunnel(c)' = {}
         /\ reply'.kind = "menu"]_vars

Revoked(c) == AccessRows(c) # {} /\ \A r \in AccessRows(c) : ~r.is_active

\* a text message of chat c is answered
TextAnswered(c) == reply' # reply /\ reply'.to = c /\ reply'.text # NULL

C25_KeysOnlyFromFunnel ==
  [][/\ api_keys \subseteq api_keys'
     /\ \A k \in api_keys' \ api_keys : AtStep(k.chat_id, "api_key")]_vars

\* C26: whatever is added, extended or deactivated, also by two
\* administrators who add the same new user at once, user_access holds at
\* most one row for a chat
C26_OneRowPerUser ==
  \A c \in ChatIds : Cardinality(AccessRows(c)) <= 1

\* both administrators found no row for the user; one has inserted, the other
\* is about to
C26_Witness ==
  /\ Cardinality(AccessRows(UserU)) = 1
  /\ \E h \in inflight :
       /\ h.path = "add" /\ h.stage = "insert" /\ parseInt(h.text) = UserU
       /\ \A r \in AccessRows(UserU) : r.created_by_admin_id # h.chat

\* C27: when the administrator answers "1" (extend) for a user who has a
\* grant, granted_at of that grant becomes the time of the answer if the
\* grant had expired, and stays as it was if it had not
C27_ExtendResetsGrantedAt ==
  [][\A c \in ChatIds : AnswersExtend(c) =>
       \A r \in user_access : \E q \in user_access' :
         /\ q.chat_id = r.chat_id
         /\ q.granted_at = IF r.expires_at < now THEN now ELSE r.granted_at]_vars

\* the answers with which the add-user dialogue refuses or fails
Rejections ==
  {"bad_chat_id_format", "reject_self", "reject_admin", "already_exists", "add_error"}

\* C28: when a handler that has added a user ends, and when a procedure
\* has changed a grant, admin_logs holds an entry with the acting
\* administrator, the kind of action and the user; a refused addition adds no
\* entry; no entry is ever changed or removed
C28_EveryChangeIsLogged ==
  [][/\ admin_logs \subseteq admin_logs'
     /\ \A h \in inflight :
          (KeyHandlerEnds(h) /\ h.path = "add" /\ reply'.kind = "user_added") =>
            LogEntry(h.chat, "add_user", parseInt(h.text)) \in admin_logs'
     /\ (inflight' = inflight /\ user_access' # user_access) =>
          \E e \in admin_logs' :
            /\ e.action \in {"add_user", "add_access", "deactivate_access"}
            /\ \E r \in user_access' \ user_access : e.target_user_id = r.chat_id
     /\ (reply' # reply /\ reply'.kind \in Rejections) => admin_logs' = admin_logs]_vars

C30_FailedSendStillCompletes ==
  [][\A h \in inflight :
       /\ (TextKeyCheck(h, FALSE) /\ h.exists # NULL) =>
            ActiveFunnel(h.chat)' = {}
       /\ TextKeyInsert(h) =>
            /\ KeyRows(h.chat, h.text)' # {}
            /\ ActiveFunnel(h.chat)' = {}]_vars

\* the last message answered was this text of chat c, and the answer was the
\* prompt of the next step
AnsweredByAdvance(c, text) ==
  /\ reply.to = c
  /\ reply.text = Some(text)
  /\ reply.kind \in {"ask_source", "ask_price", "ask_key"}

\* a handler given this text by chat c writes to c's funnel in this step
HandledWithEffect(c, text) ==
  /\ user_funnel' # user_funnel
  /\ \/ TextGeo(c, text)
     \/ TextPrice(c, text)
     \/ \E label \in PlatformLabels : LabelText(label) = text /\ HearsPlatform(c, label)
     \/ \E h \in inflight :
          /\ h.chat = c /\ h.text = text /\ h.path = "funnel"
          /\ TextKeyInsert(h) \/ \E sendOk \in BOOLEAN : TextKeyCheck(h, sendOk)

\* C31: when a step input is delivered twice, one delivery after the other,
\* the second delivery does not move the funnel again: a text that was just
\* answered with the next step's prompt is not taken by that next step, so
\* the funnel ends at most one step beyond where it was.
C31_RetryAdvancesOnce ==
  [][\A c \in Subscribers, text \in RetryTexts \cup {LabelText("1. Meta")} :
       AnsweredByAdvance(c, text) => ~HandledWithEffect(c, text)]_vars
\* C32: each step transition is one atomic read-modify-write: whenever a
\* handler of a text step writes to the funnel (the field, then the step),
\* the open row is still the one its SELECT returned, changed only by the
\* handler's own field update, and the write does not move current_step
\* backwards.
C32_StepsAreAtomic ==
  [][\A h \in inflight :
       /\ TextStepField(h) => ActiveFunnel(h.chat) = {h.funnel[1]}
       /\ TextStepStep(h) =>
            /\ \A f \in ActiveFunnel(h.chat) :
                 /\ f.current_step = h.funnel[1].current_step
                 /\ \A i \in 1..Len(Fields) :
                      Fields[i] # StepField(h.path) => f[Fields[i]] = h.funnel[1][Fields[i]]
            /\ \A f \in ActiveFunnel(h.chat), g \in ActiveFunnel(h.chat)' :
                 StepIndex(g.current_step) >= StepIndex(f.current_step)]_vars
\* C33: the stale-funnel listing holds exactly the open funnels that no step,
\* goBack or field update has touched for longer than the threshold; a funnel
\* touched within the threshold is not listed, however long ago it was
\* created.
C33_ListsUntouchedFunnels ==
  unfinished_funnels = {f \in user_funnel : ~f.is_completed /\ f.updated_at < now}

\* C35: in an open funnel every step before current_step has its column set:
\* current_step never moves past a step whose value was not stored, also when
\* the field update fails.
C35_EarlierFieldsAreSet ==
  \A f \in user_funnel :
    ~f.is_completed =>
      \A i \in 1..(StepIndex(f.current_step) - 1) : f[Fields[i]] # NULL
\* C36: a funnel row that is completed is never changed again: no step
\* input, source button, goBack, category choice, beginFunnel or completion
\* of a later funnel of the same user changes any of its fields or removes it.
C36_CompletedIsImmutable ==
  [][\A f \in user_funnel : f.is_completed => f \in user_funnel']_vars

\* a completed funnel lies beside a later one of the same user that has been
\* walked to its last step
C36_Witness ==
  \E f, g \in FunnelRows(UserU) :
    /\ f.is_completed
    /\ ~g.is_completed
    /\ g.current_step = "api_key"
    /\ g.conversion_price # NULL
\* the administrator c, shown the choices for a user who has a grant, sends
\* a text that is none of "1", "2", "3"
AnswersOther(c) ==
  /\ reply = Answer(c, "already_exists")
  /\ TextAdminConfirm(c, ChoiceOther) \/ TextLegacyReadAlone(c, ChoiceOther)

\* C37: in the confirm step of the add-user dialogue an input other than
\* "1", "2" or "3" is answered with the re-prompt and leaves the dialogue in
\* the confirm step, so that a following "1" or "2" is applied to the user.
C37_OtherChoiceKeepsConfirm ==
  [][\A c \in ChatIds : AnswersOther(c) =>
       /\ reply' = Answer(c, "use_1_2_3")
       /\ InConfirmAction(c)']_vars
\* the subscription this row stands for is in force now
InForce6(row) ==
  /\ row # NULL
  /\ row[1].subscription_status \in {Some("active"), Some("trial")}
  /\ ~Expired6(row[1])

\* C34: in revision 6.0 checkUserSubscription reports isValid = false for a
\* user with no record and for a user whose latest record has expired, and a
\* key-shaped message of such a user is not stored.
C34_ExpiryIsEnforced ==
  /\ [](\A c \in {AdminA, UserU} : \A row \in SelectLatest6(c) :
          (row = NULL \/ Expired6(row[1])) => ~SubscriptionOf(row).isValid)
  /\ [][\A c \in {AdminA, UserU}, text \in Texts6 :
          Text6(c, text) /\ api_keys' # api_keys
            => \E row \in SelectLatest6(c) : InForce6(row)]_vars

\* the administrator has pressed an activation button and is asked for an id
AskedTarget6(c) == reply.to = c /\ reply.kind = "ask_target_id"

\* C39: in revision 6.0, once an administrator has activated a subscription
\* for a user, checkUserSubscription reports status active and the granted
\* expiry for that user.
C39_ActivationIsReported ==
  [][\A a \in adminIds6 :
       AskedTarget6(a) /\ Text6(a, IdUser)
         => \A r \in checkUserSubscription(UserU)' :
              /\ r.status = "active"
              /\ r.expiresAt = Some(now + GrantDays * TicksPerDay)]_vars
\* the text handler of revision 3.1 skips this text of this chat
Skipped31(c, text) ==
  /\ ~InWaitingId(c) /\ ~InConfirmAction(c)
  /\ ~Denied(c)
  /\ text \in menuItems31

\* C38: in revision 3.1 a platform label that the text handler skips is
\* handled by the platform buttons' handler: for a user with access the press
\* sets waitingForKey for that platform.
C38_SkippedLabelsAreHandled ==
  [][\A c \in {AdminA, UserU} :
       Skipped31(c, LabelText("1. Meta")) /\ Message31(c, LabelText("1. Meta"))
         => userStates'[c] = Some([platform |-> "meta", waitingForKey |-> TRUE])]_vars
\* the reminder of this type that was sent for the expiry this row has now
RemindedForExpiry(row, type) ==
  \E n \in notifications :
    /\ n.user_id = row.chat_id /\ n.notification_type = type
    /\ n.created_at + LeadDays(type) * TicksPerDay = row.expires_at

\* C40: at every run of checkExpiringSubscriptions, a user whose active grant
\* expires in the 3-day or the 1-day window and whom Telegram can reach is
\* sent that reminder in the run, unless the reminder was already sent for
\* this same expiry; so a user reminded once and then extended is reminded
\* again before the new expiry.
C40_RemindedForEveryExpiry ==
  [][\A reachable \in SUBSET Subscribers :
       ourDbUp /\ checkExpiringSubscriptions(reachable)
         => \A r \in user_access, type \in ReminderTypes :
              (r.is_active /\ InReminderWindow(r, type) /\ r.chat_id \in reachable)
                => \/ NewNotification(r.chat_id, type) \in notifications' \ notifications
                   \/ RemindedForExpiry(r, type)]_vars
====
